---- MODULE Spec2Model ----
(***************************************************************************)
(* A model of the RecForge recommendation engine: the catalog store        *)
(* (core/recommender.py), the min-heap (data_structures/heap.py) and the   *)
(* top-k queries built on it.                                              *)
(*                                                                         *)
(* Python values are represented as follows.                               *)
(*   dict      a sequence of <<key, value>> pairs with distinct keys, in   *)
(*             insertion order (the iteration order of a Python dict)      *)
(*   list      a sequence; Python index n is TLA+ index n + 1              *)
(*   None      the empty sequence <<>> where a value <<v>> is optional     *)
(*   float     ratings are small naturals; a score is a record             *)
(*             [num, den] standing for the real number num / sqrt(den)     *)
(***************************************************************************)
EXTENDS Integers, Sequences, FiniteSets, TLC

\* ------------------------------------------------------------------------
\* Bounds and input domains
\* ------------------------------------------------------------------------

\* Number of mutating calls (add_user, add_item, add_rating) in one run of Spec.
MaxOps == 4

\* Ids offered to the calls of Spec.
UserIds == {"u1", "u2"}
ItemIds == {"i1", "i2"}

\* Rating values offered to add_rating (0 is the "unrated" sentinel of the matrix).
Ratings == {0, 1, 2}

\* Every id any specification below offers.
AllUserIds == {"u1", "u2", "u3"}
AllItemIds == {"i1", "i2", "i3", "i4"}

\* Python's order on the id strings: "i1" < "i2" < "i3" < "i4", "u1" < "u2" < "u3".
IdRank(id) ==
    CASE id = "i1" -> 1 [] id = "i2" -> 2 [] id = "i3" -> 3 [] id = "i4" -> 4
      [] id = "u1" -> 5 [] id = "u2" -> 6 [] id = "u3" -> 7

Min(a, b) == IF a <= b THEN a ELSE b

\* ------------------------------------------------------------------------
\* Python dict as an insertion-ordered sequence of <<key, value>> pairs
\* ------------------------------------------------------------------------

DictKeys(d) == [n \in 1..Len(d) |-> d[n][1]]

DictHas(d, k) == \E n \in 1..Len(d) : d[n][1] = k

\* d[k] for a key that is present
DictAt(d, k) == d[CHOOSE n \in 1..Len(d) : d[n][1] = k][2]

\* d[k] = v : an existing key keeps its position, a new key goes last
DictSet(d, k, v) ==
    IF DictHas(d, k)
    THEN [n \in 1..Len(d) |-> IF d[n][1] = k THEN <<k, v>> ELSE d[n]]
    ELSE Append(d, <<k, v>>)

\* d.get(k) : <<value>> or the empty sequence for None
DictGet(d, k) == IF DictHas(d, k) THEN <<DictAt(d, k)>> ELSE <<>>

\* ------------------------------------------------------------------------
\* State of a RecommendationEngine
\* ------------------------------------------------------------------------

VARIABLES
    user_store,         \* dict user_id -> User
    item_store,         \* dict item_id -> Item
    user_rating_store,  \* dict user_id -> dict item_id -> rating
    item_rating_store,  \* dict item_id -> dict user_id -> rating
    user_item_matrix,   \* list of rows, each a list of ratings
    user_to_index,      \* dict user_id -> row index (0-based)
    index_to_user,      \* list of user ids
    item_to_index,      \* dict item_id -> column index (0-based)
    index_to_item,      \* list of item ids
    category_index,     \* ContentBasedRecommender: dict category -> list of item ids
    tag_index,          \* ContentBasedRecommender: dict tag -> list of item ids
    cooccurence_matrix, \* CollaborativeFilterer: dict <<item, item>> -> count
    user_neighbourhoods, \* UserCollaborativeFiltering: dict user_id -> list of <<user_id, similarity>>
    call,               \* the last call: [op, args, exc, ret]
    last_rated,         \* history: (u, i) -> the values of the last two add_rating(u, i, .)
    nops,               \* history: number of mutating calls made
    min_heap,           \* MinHeap: the list self.heap of a heap of its own
    pushed,             \* history: element -> number of times it was pushed
    popped              \* history: element -> number of times pop returned it

storeVars == <<user_store, item_store, user_rating_store, item_rating_store,
               user_item_matrix, user_to_index, index_to_user, item_to_index,
               index_to_item>>

\* the structures the scorers derive from the store
derivedVars == <<category_index, tag_index, cooccurence_matrix, user_neighbourhoods>>

vars == <<user_store, item_store, user_rating_store, item_rating_store,
          user_item_matrix, user_to_index, index_to_user, item_to_index,
          index_to_item, category_index, tag_index, cooccurence_matrix,
          user_neighbourhoods, call, last_rated, nops, min_heap, pushed, popped>>

heapVars == <<min_heap, pushed, popped>>

\* The elements pushed on the heap: tuples (score, id) as the engine's
\* selectors push them.
HeapItems ==
    {<<[num |-> 1, den |-> 1], "i1">>, <<[num |-> 2, den |-> 1], "i1">>,
     <<[num |-> 2, den |-> 1], "i2">>, <<[num |-> 3, den |-> 1], "i1">>}

\* The catalogue the items are drawn from: the category and the tags each
\* item id is created with (tags is an optional list: <<>> is None).  Item
\* takes any list as tags: i3 is created without tags, and the tags of i4
\* name its own category.
ItemCategory(i) == IF i \in {"i3", "i4"} THEN "c2" ELSE "c1"

ItemTags(i) ==
    CASE i = "i1" -> << <<"t1", "t2">> >>
      [] i = "i2" -> << <<"t1">> >>
      [] i = "i4" -> << <<"t2", "c2">> >>
      [] OTHER -> <<>>

\* The objects held by the stores.
User(u) == [user_id |-> u]
Item(i) == [item_id |-> i, category |-> ItemCategory(i), tags |-> ItemTags(i)]

\* the last two elements of a history
LastTwo(h) == IF Len(h) <= 2 THEN h ELSE SubSeq(h, Len(h) - 1, Len(h))

Returned(op, args, v) == [op |-> op, args |-> args, exc |-> "none", ret |-> v]
Raised(op, args, e) == [op |-> op, args |-> args, exc |-> e, ret |-> <<>>]

Init ==
    /\ user_store = <<>>
    /\ item_store = <<>>
    /\ user_rating_store = <<>>
    /\ item_rating_store = <<>>
    /\ user_item_matrix = <<>>
    /\ user_to_index = <<>>
    /\ index_to_user = <<>>
    /\ item_to_index = <<>>
    /\ index_to_item = <<>>
    /\ category_index = <<>>
    /\ tag_index = <<>>
    /\ cooccurence_matrix = <<>>
    /\ user_neighbourhoods = <<>>
    /\ call = Returned("__init__", <<>>, <<>>)
    /\ last_rated = [p \in AllUserIds \X AllItemIds |-> <<>>]
    /\ nops = 0
    /\ min_heap = <<>>
    /\ pushed = [item \in HeapItems |-> 0]
    /\ popped = [item \in HeapItems |-> 0]

\* ------------------------------------------------------------------------
\* add_user, add_item
\* ------------------------------------------------------------------------

\* new_subarray of add_user: number_of_items zeros
ZeroRow(number_of_items) == [n \in 1..number_of_items |-> 0]

add_user(u) ==
    /\ user_store' = DictSet(user_store, u, User(u))
    /\ user_to_index' = DictSet(user_to_index, u, Len(index_to_user))
    /\ index_to_user' = Append(index_to_user, u)
    /\ user_item_matrix' = Append(user_item_matrix, ZeroRow(Len(index_to_item)))
    /\ call' = Returned("add_user", <<u>>, <<>>)
    /\ UNCHANGED <<item_store, user_rating_store, item_rating_store,
                   item_to_index, index_to_item, last_rated>>
    /\ UNCHANGED derivedVars

\* A variant of add_item that drops the two content indices, as a store
\* that invalidated them on every new item would.
add_item_invalidating(i) ==
    /\ item_store' = DictSet(item_store, i, Item(i))
    /\ item_to_index' = DictSet(item_to_index, i, Len(index_to_item))
    /\ index_to_item' = Append(index_to_item, i)
    /\ user_item_matrix' =
           [r \in 1..Len(user_item_matrix) |-> Append(user_item_matrix[r], 0)]
    /\ call' = Returned("add_item", <<i>>, <<>>)
    /\ UNCHANGED <<user_store, user_rating_store, item_rating_store,
                   user_to_index, index_to_user, last_rated>>
    /\ category_index' = <<>>
    /\ tag_index' = <<>>
    /\ UNCHANGED <<cooccurence_matrix, user_neighbourhoods>>

add_item(i) ==
    /\ item_store' = DictSet(item_store, i, Item(i))
    /\ item_to_index' = DictSet(item_to_index, i, Len(index_to_item))
    /\ index_to_item' = Append(index_to_item, i)
    /\ user_item_matrix' =
           [r \in 1..Len(user_item_matrix) |-> Append(user_item_matrix[r], 0)]
    /\ call' = Returned("add_item", <<i>>, <<>>)
    /\ UNCHANGED <<user_store, user_rating_store, item_rating_store,
                   user_to_index, index_to_user, last_rated>>
    /\ UNCHANGED derivedVars

\* ------------------------------------------------------------------------
\* add_rating
\* ------------------------------------------------------------------------

\* A variant of RatingMapSet that keeps the rating a pair already has.
RatingMapKeepFirst(store, outer, inner, rating) ==
    LET got == DictGet(store, outer)
        rating_map == IF got # <<>> /\ got[1] # <<>> THEN got[1] ELSE <<>>
    IN  DictSet(store, outer,
                IF DictHas(rating_map, inner)
                THEN rating_map
                ELSE DictSet(rating_map, inner, rating))

\* store[outer][inner] = rating, creating store[outer] when store.get(outer)
\* is None or empty (recommender.py lines 101-112 and 115-126)
RatingMapSet(store, outer, inner, rating) ==
    LET got == DictGet(store, outer)
        rating_map == IF got # <<>> /\ got[1] # <<>> THEN got[1] ELSE <<>>
    IN  DictSet(store, outer, DictSet(rating_map, inner, rating))

\* A variant of add_rating that looks the indices up with .get and skips the
\* matrix when one is missing, returning normally.
add_rating_lenient(u, i, r) ==
    LET args == <<u, i, r>>
        known == DictHas(user_to_index, u) /\ DictHas(item_to_index, i)
        user_index == DictAt(user_to_index, u)
        item_index == DictAt(item_to_index, i)
    IN  /\ user_rating_store' = RatingMapSet(user_rating_store, u, i, r)
        /\ item_rating_store' = RatingMapSet(item_rating_store, i, u, r)
        /\ call' = Returned("add_rating", args, <<>>)
        /\ IF known
           THEN user_item_matrix' =
                    [user_item_matrix EXCEPT ![user_index + 1][item_index + 1] = r]
           ELSE UNCHANGED user_item_matrix
        /\ last_rated' = [last_rated EXCEPT ![<<u, i>>] = LastTwo(Append(@, r))]
        /\ UNCHANGED <<user_store, item_store, user_to_index, index_to_user,
                       item_to_index, index_to_item>>
        /\ UNCHANGED derivedVars

\* add_rating writes both rating stores first and only then looks the two
\* indices up; a KeyError of the lookup leaves the stores written.
add_rating(u, i, r) ==
    LET args == <<u, i, r>>
        known == DictHas(user_to_index, u) /\ DictHas(item_to_index, i)
        user_index == DictAt(user_to_index, u)
        item_index == DictAt(item_to_index, i)
        in_range == /\ user_index + 1 \in 1..Len(user_item_matrix)
                    /\ item_index + 1 \in 1..Len(user_item_matrix[user_index + 1])
    IN  /\ user_rating_store' = RatingMapSet(user_rating_store, u, i, r)
        /\ item_rating_store' = RatingMapSet(item_rating_store, i, u, r)
        /\ IF ~known
           THEN /\ call' = Raised("add_rating", args, "KeyError")
                /\ UNCHANGED user_item_matrix
           ELSE IF ~in_range
           THEN /\ call' = Raised("add_rating", args, "IndexError")
                /\ UNCHANGED user_item_matrix
           ELSE /\ call' = Returned("add_rating", args, <<>>)
                /\ user_item_matrix' =
                       [user_item_matrix EXCEPT ![user_index + 1][item_index + 1] = r]
        /\ last_rated' = [last_rated EXCEPT ![<<u, i>>] = LastTwo(Append(@, r))]
        /\ UNCHANGED <<user_store, item_store, user_to_index, index_to_user,
                       item_to_index, index_to_item>>
        /\ UNCHANGED derivedVars

\* ------------------------------------------------------------------------
\* Store accessors: each yields the record of the call (value or exception)
\* ------------------------------------------------------------------------

get_user(u) == Returned("get_user", <<u>>, DictGet(user_store, u))

get_item(i) == Returned("get_item", <<i>>, DictGet(item_store, i))

\* a stored 0 is falsy, hence reported as None
get_rating(u, i) ==
    LET got == DictGet(user_rating_store, u)
        user_ratings == IF got # <<>> THEN got[1] ELSE <<>>
        rating == DictGet(user_ratings, i)
    IN  Returned("get_rating", <<u, i>>,
                 IF rating # <<>> /\ rating[1] # 0 THEN rating ELSE <<>>)

\* user_to_index.get gives None for an unknown id, and indexing a list by
\* None is a TypeError
get_user_vector(u) ==
    LET user_index == DictGet(user_to_index, u)
    IN  IF user_index = <<>>
        THEN Raised("get_user_vector", <<u>>, "TypeError")
        ELSE IF user_index[1] + 1 \notin 1..Len(user_item_matrix)
        THEN Raised("get_user_vector", <<u>>, "IndexError")
        ELSE Returned("get_user_vector", <<u>>, <<user_item_matrix[user_index[1] + 1]>>)

\* the loop body indexes each row by item_index: with no rows nothing is
\* indexed and the empty column is returned even for an unknown id
get_item_vector(i) ==
    LET item_index == DictGet(item_to_index, i)
        rows == 1..Len(user_item_matrix)
    IN  IF Len(user_item_matrix) = 0
        THEN Returned("get_item_vector", <<i>>, << <<>> >>)
        ELSE IF item_index = <<>>
        THEN Raised("get_item_vector", <<i>>, "TypeError")
        ELSE IF \E r \in rows : item_index[1] + 1 \notin 1..Len(user_item_matrix[r])
        THEN Raised("get_item_vector", <<i>>, "IndexError")
        ELSE Returned("get_item_vector", <<i>>,
                      << [r \in rows |-> user_item_matrix[r][item_index[1] + 1]] >>)

\* item_rating_store[item_id] is a KeyError for an item nobody has rated
get_item_popularity(i) ==
    IF DictHas(item_rating_store, i)
    THEN Returned("get_item_popularity", <<i>>, <<Len(DictAt(item_rating_store, i))>>)
    ELSE Raised("get_item_popularity", <<i>>, "KeyError")

\* ------------------------------------------------------------------------
\* Scores and the tuples (score, id) the heap holds
\* ------------------------------------------------------------------------

\* A score [num, den] is the non-negative real num / sqrt(den), den > 0:
\* a popularity p is [p, 1], a cosine similarity dot / (sqrt(a) * sqrt(b))
\* is [dot, a * b].  A similarity also has the field off: the float the
\* code holds is off doubles above (below, when negative) the double
\* nearest to num / sqrt(den).  A popularity is an int and has no such
\* field.
IntScore(p) == [num |-> p, den |-> 1]

\* the distance of the float of a score from the double nearest to its
\* value as a real number
Off(a) == IF "off" \in DOMAIN a THEN a.off ELSE 0

\* a > b on the floats of two scores: two different reals of the small
\* integers met here lie many doubles apart, and two equal ones compare as
\* their distances from the nearest double do
ScoreGT(a, b) ==
    \/ a.num * a.num * b.den > b.num * b.num * a.den
    \/ /\ a.num * a.num * b.den = b.num * b.num * a.den
       /\ Off(a) > Off(b)

\* a == b on the floats of two scores
ScoreEQ(a, b) ==
    /\ a.num * a.num * b.den = b.num * b.num * a.den
    /\ Off(a) = Off(b)

\* Python's x > y on tuples (score, id): the first differing component decides
TupleGT(x, y) ==
    IF ~ScoreEQ(x[1], y[1]) THEN ScoreGT(x[1], y[1]) ELSE IdRank(x[2]) > IdRank(y[2])

\* ------------------------------------------------------------------------
\* MinHeap (data_structures/heap.py); heap is the list self.heap and the
\* index arguments are Python's 0-based indices
\* ------------------------------------------------------------------------

_get_parent_index(i) == (i - 1) \div 2

_get_left_child_index(i) == (2 * i) + 1

_get_right_child_index(i) == (2 * i) + 2

_has_parent(i) == _get_parent_index(i) >= 0

_has_left_child(heap, i) == _get_left_child_index(i) < Len(heap)

_has_right_child(heap, i) == _get_right_child_index(i) < Len(heap)

\* temp_node = heap[i]; heap[j] = heap[i]; heap[i] = temp_node
_swap(heap, i, j) ==
    LET temp_node == heap[i + 1]
        after_j == [heap EXCEPT ![j + 1] = heap[i + 1]]
    IN  [after_j EXCEPT ![i + 1] = temp_node]

RECURSIVE _bubble_up(_, _)
_bubble_up(heap, index) ==
    IF ~_has_parent(index)
    THEN heap
    ELSE LET parent_index == _get_parent_index(index)
         IN  IF TupleGT(heap[parent_index + 1], heap[index + 1])
             THEN _bubble_up(_swap(heap, index, parent_index), parent_index)
             ELSE heap

RECURSIVE _bubble_down(_, _)
_bubble_down(heap, index) ==
    IF ~_has_left_child(heap, index)
    THEN heap
    ELSE LET left == _get_left_child_index(index)
             right_child_index == _get_right_child_index(index)
             smaller_child_index ==
                 IF /\ _has_right_child(heap, index)
                    /\ TupleGT(heap[left + 1], heap[right_child_index + 1])
                 THEN right_child_index
                 ELSE left
         IN  IF TupleGT(heap[index + 1], heap[smaller_child_index + 1])
             THEN _bubble_down(_swap(heap, index, smaller_child_index), smaller_child_index)
             ELSE heap

\* peek of a non-empty heap (the callers below never peek an empty one)
peek(heap) == heap[1]

push(heap, item) == _bubble_up(Append(heap, item), Len(heap))

\* pop of a non-empty heap: [value |-> the old root, heap |-> the heap left]
pop(heap) ==
    LET minimum_value == heap[1]
        moved == [heap EXCEPT ![1] = heap[Len(heap)]]
        shorter == SubSeq(moved, 1, Len(heap) - 1)
    IN  [value |-> minimum_value,
         heap |-> IF Len(shorter) > 0 THEN _bubble_down(shorter, 0) ELSE shorter]

\* ------------------------------------------------------------------------
\* Cosine similarity of two items and of two users (recommender.py lines
\* 174-261)
\*
\* A similarity is a record [num, den, cmp1, off]: num / sqrt(den) is its
\* value as a real number, off places the float the code returns among
\* the doubles around that value, and cmp1 tells how the float compares
\* with 1.0 (-1 below, 0 equal, 1 above).  den = 0 stands for a division
\* by zero.
\* ------------------------------------------------------------------------

\* return 0.0
ZeroScore == [num |-> 0, den |-> 1, cmp1 |-> -1, off |-> 0]

\* The dot products and sums of squares of two rating maps that share any
\* number of keys and hold both at most three ratings 1.0 or 2.0, both at
\* most two ratings 1.0, 2.0 or 3.0, both at most three ratings 3.0 or
\* both at most three ratings 5.0 (a rating 0.0 adds nothing to a sum),
\* and those of one such map taken twice as the magnitude, as
\* <<sum, sum1, sum2, offset>> with sum1 <= sum2 and sum > 0: the float
\*     sum / (math.sqrt(sum1) * math.sqrt(sum2))
\* of IEEE-754 double arithmetic lies offset doubles above the double
\* nearest to sum / sqrt(sum1 * sum2).  Other maps are left undefined.
QuotientTable ==
    {<<1, 1, 1, 0>>, <<1, 1, 2, -1>>, <<1, 1, 3, 1>>, <<1, 1, 5, 0>>,
     <<1, 1, 6, 1>>, <<1, 1, 9, 0>>, <<1, 1, 10, 0>>, <<1, 2, 2, -2>>,
     <<1, 2, 3, -1>>, <<1, 2, 5, 0>>, <<1, 2, 6, 1>>, <<1, 2, 9, -1>>,
     <<1, 2, 10, 0>>, <<1, 3, 3, 1>>, <<1, 3, 5, -1>>, <<1, 3, 6, 1>>,
     <<1, 3, 9, 0>>, <<1, 5, 5, -2>>, <<1, 5, 6, 0>>, <<1, 5, 9, 0>>,
     <<1, 5, 10, -1>>, <<1, 6, 6, 1>>, <<1, 6, 9, 0>>, <<1, 9, 9, 0>>,
     <<1, 10, 10, -2>>, <<2, 1, 1, 0>>, <<2, 1, 4, 0>>, <<2, 1, 5, 0>>,
     <<2, 1, 6, 1>>, <<2, 1, 8, -1>>, <<2, 1, 9, 0>>, <<2, 1, 12, 1>>,
     <<2, 1, 13, 0>>, <<2, 2, 2, -2>>, <<2, 2, 3, -1>>, <<2, 2, 4, -1>>,
     <<2, 2, 5, 0>>, <<2, 2, 6, 1>>, <<2, 2, 8, -2>>, <<2, 2, 9, -1>>,
     <<2, 2, 12, -1>>, <<2, 2, 13, -1>>, <<2, 3, 3, 1>>, <<2, 3, 4, 1>>,
     <<2, 3, 5, -1>>, <<2, 3, 6, 1>>, <<2, 3, 8, -1>>, <<2, 3, 9, 0>>,
     <<2, 3, 12, 1>>, <<2, 4, 4, 0>>, <<2, 4, 5, 0>>, <<2, 4, 6, 1>>,
     <<2, 4, 9, 0>>, <<2, 4, 10, 0>>, <<2, 5, 5, -2>>, <<2, 5, 6, 0>>,
     <<2, 5, 8, 0>>, <<2, 5, 9, 0>>, <<2, 5, 10, -1>>, <<2, 5, 12, -1>>,
     <<2, 5, 13, 1>>, <<2, 6, 6, 1>>, <<2, 6, 8, 1>>, <<2, 6, 9, 0>>,
     <<2, 6, 12, 1>>, <<2, 8, 8, -2>>, <<2, 8, 9, -1>>, <<2, 8, 10, 0>>,
     <<2, 9, 9, 0>>, <<2, 9, 12, 0>>, <<2, 10, 10, -2>>, <<2, 10, 13, 1>>,
     <<2, 12, 12, 1>>, <<2, 13, 13, 0>>, <<3, 1, 1, 0>>, <<3, 1, 9, 0>>,
     <<3, 1, 10, 0>>, <<3, 1, 13, 0>>, <<3, 1, 18, 0>>, <<3, 2, 2, -1>>,
     <<3, 2, 5, 0>>, <<3, 2, 6, 1>>, <<3, 2, 9, -1>>, <<3, 2, 10, 0>>,
     <<3, 2, 13, -1>>, <<3, 2, 18, 0>>, <<3, 3, 3, 1>>, <<3, 3, 5, 0>>,
     <<3, 3, 6, 0>>, <<3, 3, 9, 0>>, <<3, 5, 5, -1>>, <<3, 5, 6, 0>>,
     <<3, 5, 9, 0>>, <<3, 5, 10, -1>>, <<3, 5, 13, 0>>, <<3, 5, 18, 0>>,
     <<3, 6, 6, 1>>, <<3, 6, 9, 1>>, <<3, 9, 9, 0>>, <<3, 9, 10, 0>>,
     <<3, 10, 10, -1>>, <<3, 10, 13, 1>>, <<3, 10, 18, 1>>, <<3, 13, 13, 1>>,
     <<3, 18, 18, 2>>, <<4, 2, 2, -2>>, <<4, 2, 8, -2>>, <<4, 2, 9, -1>>,
     <<4, 2, 10, 0>>, <<4, 2, 12, -1>>, <<4, 3, 3, 1>>, <<4, 3, 6, 1>>,
     <<4, 3, 8, -1>>, <<4, 3, 9, 0>>, <<4, 3, 12, 1>>, <<4, 4, 4, 0>>,
     <<4, 4, 5, 0>>, <<4, 4, 6, 1>>, <<4, 4, 8, -1>>, <<4, 4, 9, 0>>,
     <<4, 4, 12, 1>>, <<4, 4, 13, 0>>, <<4, 5, 5, -2>>, <<4, 5, 6, 0>>,
     <<4, 5, 8, 0>>, <<4, 5, 9, 0>>, <<4, 5, 12, -1>>, <<4, 5, 13, 1>>,
     <<4, 6, 6, 1>>, <<4, 6, 8, 1>>, <<4, 6, 9, 0>>, <<4, 6, 12, 1>>,
     <<4, 8, 8, -2>>, <<4, 8, 9, -1>>, <<4, 8, 12, -1>>, <<4, 8, 13, -1>>,
     <<4, 9, 9, 0>>, <<4, 9, 12, 0>>, <<4, 10, 10, -2>>, <<4, 12, 12, 1>>,
     <<4, 13, 13, 0>>, <<5, 2, 2, -1>>, <<5, 2, 13, -1>>, <<5, 3, 3, 1>>,
     <<5, 3, 9, 0>>, <<5, 5, 5, -2>>, <<5, 5, 6, 0>>, <<5, 5, 9, 0>>,
     <<5, 5, 10, -1>>, <<5, 6, 6, 1>>, <<5, 6, 9, 1>>, <<5, 9, 9, 0>>,
     <<5, 10, 10, -2>>, <<5, 13, 13, 1>>, <<6, 2, 2, -1>>, <<6, 2, 18, 0>>,
     <<6, 3, 3, 1>>, <<6, 3, 12, 1>>, <<6, 4, 4, 0>>, <<6, 4, 9, 0>>,
     <<6, 4, 10, 0>>, <<6, 4, 13, 0>>, <<6, 4, 18, 0>>, <<6, 5, 5, -1>>,
     <<6, 5, 8, 0>>, <<6, 5, 9, 0>>, <<6, 5, 10, -1>>, <<6, 5, 12, 0>>,
     <<6, 5, 13, 0>>, <<6, 5, 18, 0>>, <<6, 6, 6, 1>>, <<6, 6, 8, 1>>,
     <<6, 6, 9, 1>>, <<6, 6, 12, 0>>, <<6, 8, 8, -1>>, <<6, 8, 9, -1>>,
     <<6, 8, 10, 0>>, <<6, 8, 13, -1>>, <<6, 8, 18, 0>>, <<6, 9, 9, 0>>,
     <<6, 9, 12, 0>>, <<6, 9, 13, 0>>, <<6, 10, 10, -1>>, <<6, 10, 13, 1>>,
     <<6, 12, 12, 1>>, <<6, 13, 13, 1>>, <<6, 13, 18, 1>>, <<6, 18, 18, 2>>,
     <<7, 5, 5, -1>>, <<7, 5, 10, -2>>, <<7, 5, 13, 1>>, <<7, 6, 6, 0>>,
     <<7, 6, 9, 1>>, <<7, 9, 9, 0>>, <<7, 10, 10, -1>>, <<7, 13, 13, 1>>,
     <<8, 5, 5, -2>>, <<8, 5, 13, 1>>, <<8, 6, 6, 1>>, <<8, 6, 12, 1>>,
     <<8, 8, 8, -2>>, <<8, 8, 9, -1>>, <<8, 8, 10, 0>>, <<8, 8, 12, -1>>,
     <<8, 9, 9, 0>>, <<8, 9, 12, 0>>, <<8, 10, 10, -2>>, <<8, 12, 12, 1>>,
     <<8, 13, 13, 0>>, <<9, 5, 5, -2>>, <<9, 5, 18, 0>>, <<9, 9, 9, 0>>,
     <<9, 9, 10, 0>>, <<9, 9, 13, 0>>, <<9, 9, 18, 0>>, <<9, 9, 27, 0>>,
     <<9, 10, 10, -2>>, <<9, 10, 13, 0>>, <<9, 10, 18, 0>>, <<9, 13, 13, 1>>,
     <<9, 13, 18, 1>>, <<9, 18, 18, 1>>, <<9, 18, 27, 0>>, <<9, 27, 27, 0>>,
     <<10, 8, 8, -1>>, <<10, 8, 13, -1>>, <<10, 9, 9, 0>>, <<10, 9, 12, 0>>,
     <<10, 10, 10, -2>>, <<10, 12, 12, 1>>, <<10, 13, 13, 1>>,
     <<11, 10, 10, -1>>, <<11, 10, 13, 0>>, <<11, 13, 13, 1>>, <<12, 8, 8, -1>>,
     <<12, 8, 18, 0>>, <<12, 10, 10, -1>>, <<12, 10, 18, 1>>, <<12, 12, 12, 1>>,
     <<12, 13, 13, 1>>, <<12, 18, 18, 2>>, <<13, 13, 13, 1>>, <<15, 13, 13, 1>>,
     <<15, 13, 18, 2>>, <<15, 18, 18, 1>>, <<18, 18, 18, 1>>, <<18, 18, 27, 0>>,
     <<18, 27, 27, 0>>, <<25, 25, 25, 0>>, <<25, 25, 50, -1>>, <<25, 25, 75, 0>>,
     <<25, 50, 50, -1>>, <<25, 50, 75, -1>>, <<25, 75, 75, -1>>,
     <<27, 27, 27, 0>>, <<50, 50, 50, -1>>, <<50, 50, 75, -1>>,
     <<50, 75, 75, -1>>, <<75, 75, 75, -2>>}

\* the number of doubles the float of a quotient lies above the double
\* nearest to the real quotient; 0.0 divided by anything is 0.0, and the
\* product of the two roots does not depend on their order
QuotientOffset(sum, sum1, sum2) ==
    IF sum = 0
    THEN 0
    ELSE CHOOSE offset \in -2..2 :
             <<sum, Min(sum1, sum2), sum1 + sum2 - Min(sum1, sum2), offset>>
                 \in QuotientTable

\* sum / (math.sqrt(sum1) * math.sqrt(sum2)) for a dot product sum and the
\* two sums of squares.  When sum is the exact square root of sum1 * sum2
\* the real quotient is 1 and the float lies on the side of 1.0 its offset
\* tells.
FloatQuotient(sum, sum1, sum2) ==
    IF sum1 * sum2 = 0
    THEN [num |-> sum, den |-> 0, cmp1 |-> 0, off |-> 0]
    ELSE LET offset == QuotientOffset(sum, sum1, sum2)
         IN  [num |-> sum, den |-> sum1 * sum2,
              cmp1 |-> IF sum * sum < sum1 * sum2 THEN 0 - 1
                       ELSE IF sum * sum > sum1 * sum2 THEN 1
                       ELSE IF offset < 0 THEN 0 - 1
                       ELSE IF offset > 0 THEN 1
                       ELSE 0,
              off |-> offset]

\* sum of rating**2 over the values of a rating map
RECURSIVE SumSquares(_)
SumSquares(ratings_map) ==
    IF ratings_map = <<>>
    THEN 0
    ELSE ratings_map[1][2] * ratings_map[1][2] + SumSquares(Tail(ratings_map))

\* sum of map1[key] * map2[key] over the keys the two maps share
RECURSIVE DotCommon(_, _)
DotCommon(map1, map2) ==
    IF map1 = <<>>
    THEN 0
    ELSE (IF DictHas(map2, map1[1][1]) THEN map1[1][2] * DictAt(map2, map1[1][1]) ELSE 0)
         + DotCommon(Tail(map1), map2)

\* A variant of get_item_similarity that divides by the first item's
\* magnitude twice.
get_item_similarity_own_norm(item1_id, item2_id) ==
    LET got1 == DictGet(item_rating_store, item1_id)
        got2 == DictGet(item_rating_store, item2_id)
    IN  IF got1 = <<>> \/ got2 = <<>>
        THEN ZeroScore
        ELSE IF got1[1] = <<>> \/ got2[1] = <<>>
        THEN ZeroScore
        ELSE LET sum == DotCommon(got1[1], got2[1])
                 item1_sum == SumSquares(got1[1])
                 item2_sum == SumSquares(got2[1])
             IN  IF item1_sum = 0 \/ item2_sum = 0
                 THEN ZeroScore
                 ELSE FloatQuotient(sum, item1_sum, item1_sum)

\* A variant of get_item_similarity without the check of the magnitudes.
get_item_similarity_unguarded(item1_id, item2_id) ==
    LET got1 == DictGet(item_rating_store, item1_id)
        got2 == DictGet(item_rating_store, item2_id)
    IN  IF got1 = <<>> \/ got2 = <<>>
        THEN ZeroScore
        ELSE IF got1[1] = <<>> \/ got2[1] = <<>>
        THEN ZeroScore
        ELSE FloatQuotient(DotCommon(got1[1], got2[1]),
                           SumSquares(got1[1]), SumSquares(got2[1]))

get_item_similarity(item1_id, item2_id) ==
    LET got1 == DictGet(item_rating_store, item1_id)
        got2 == DictGet(item_rating_store, item2_id)
    IN  IF got1 = <<>> \/ got2 = <<>>
        THEN ZeroScore
        ELSE IF got1[1] = <<>> \/ got2[1] = <<>>
        THEN ZeroScore
        ELSE LET sum == DotCommon(got1[1], got2[1])
                 item1_sum == SumSquares(got1[1])
                 item2_sum == SumSquares(got2[1])
             IN  IF item1_sum = 0 \/ item2_sum = 0
                 THEN ZeroScore
                 ELSE FloatQuotient(sum, item1_sum, item2_sum)

get_user_similarity(user1_id, user2_id) ==
    LET got1 == DictGet(user_rating_store, user1_id)
        got2 == DictGet(user_rating_store, user2_id)
    IN  IF got1 = <<>> \/ got2 = <<>>
        THEN ZeroScore
        ELSE IF got1[1] = <<>> \/ got2[1] = <<>>
        THEN ZeroScore
        ELSE LET sum == DotCommon(got1[1], got2[1])
                 user1_sum == SumSquares(got1[1])
                 user2_sum == SumSquares(got2[1])
             IN  IF user1_sum = 0 \/ user2_sum = 0
                 THEN ZeroScore
                 ELSE FloatQuotient(sum, user1_sum, user2_sum)

\* the record of a call that ends in a float division: ZeroDivisionError
\* when the divisor is 0
Quotient(op, args, score) ==
    IF score.den = 0
    THEN Raised(op, args, "ZeroDivisionError")
    ELSE Returned(op, args, <<score>>)

\* ------------------------------------------------------------------------
\* Top-k selection over the heap (recommender.py lines 286-387)
\* ------------------------------------------------------------------------

\* The selector loop over the candidates (score, id) in iteration order:
\* push while len(heap) < k, otherwise replace the root when the new score
\* is strictly greater than the root's.
RECURSIVE SelectTopK(_, _, _)
SelectTopK(candidates, k, heap) ==
    IF candidates = <<>>
    THEN heap
    ELSE LET c == Head(candidates)
             after == IF Len(heap) < k
                      THEN push(heap, c)
                      ELSE IF ScoreGT(c[1], peek(heap)[1])
                      THEN push(pop(heap).heap, c)
                      ELSE heap
         IN  SelectTopK(Tail(candidates), k, after)

\* while len(min_heap) > 0: result.append(min_heap.pop())
RECURSIVE Drain(_)
Drain(heap) ==
    IF Len(heap) = 0
    THEN <<>>
    ELSE <<pop(heap).value>> \o Drain(pop(heap).heap)

\* the two-pointer reversal of the result list
Reverse(result) == [n \in 1..Len(result) |-> result[Len(result) + 1 - n]]

\* the tuples the selector holds at the end, highest first
TopKTuples(candidates, k) == Reverse(Drain(SelectTopK(candidates, k, <<>>)))

TupleIds(tuples) == [n \in 1..Len(tuples) |-> tuples[n][2]]

TupleScores(tuples) == [n \in 1..Len(tuples) |-> tuples[n][1]]

\* (popularity, item_id) for each key of item_rating_store, in dict order
PopularityCandidates ==
    [n \in 1..Len(item_rating_store) |->
        <<IntScore(Len(item_rating_store[n][2])), item_rating_store[n][1]>>]

get_top_k_popular_items(k) ==
    Returned("get_top_k_popular_items", <<k>>,
             <<TupleIds(TopKTuples(PopularityCandidates, k))>>)

\* (similarity to item_id, store_item_id) for each other key of
\* item_rating_store, in dict order
RECURSIVE SimilarityCandidatesFrom(_, _)
SimilarityCandidatesFrom(item_id, store) ==
    IF store = <<>>
    THEN <<>>
    ELSE (IF store[1][1] # item_id
          THEN << <<get_item_similarity(item_id, store[1][1]), store[1][1]>> >>
          ELSE <<>>)
         \o SimilarityCandidatesFrom(item_id, Tail(store))

SimilarityCandidates(item_id) == SimilarityCandidatesFrom(item_id, item_rating_store)

get_top_k_similar_items(item_id, k) ==
    Returned("get_top_k_similar_items", <<item_id, k>>,
             <<TupleIds(TopKTuples(SimilarityCandidates(item_id), k))>>)

\* ------------------------------------------------------------------------
\* ContentBasedRecommender: the category and tag indices
\* (algorithms/content_based.py lines 17-40)
\* ------------------------------------------------------------------------

\* if key not in index: index[key] = []; index[key].append(item_id)
IndexAppend(index, index_key, item_id) ==
    DictSet(index, index_key,
            Append(IF DictHas(index, index_key) THEN DictAt(index, index_key) ELSE <<>>,
                   item_id))

\* the loop over item_store.items(), starting from the index as it is
RECURSIVE CategoryIndexLoop(_, _)
CategoryIndexLoop(index, store) ==
    IF store = <<>>
    THEN index
    ELSE CategoryIndexLoop(IndexAppend(index, store[1][2].category, store[1][1]),
                           Tail(store))

\* the value of self.category_index after build_category_index
build_category_index == CategoryIndexLoop(category_index, item_store)

\* the loop over the tags of one item
RECURSIVE TagLoop(_, _, _)
TagLoop(index, item_tags, item_id) ==
    IF item_tags = <<>>
    THEN index
    ELSE TagLoop(IndexAppend(index, item_tags[1], item_id), Tail(item_tags), item_id)

\* the loop over item_store.items(); an item whose tags are None or empty
\* is skipped
RECURSIVE TagIndexLoop(_, _)
TagIndexLoop(index, store) ==
    IF store = <<>>
    THEN index
    ELSE LET item == store[1][2]
         IN  TagIndexLoop(IF item.tags # <<>> /\ item.tags[1] # <<>>
                          THEN TagLoop(index, item.tags[1], store[1][1])
                          ELSE index,
                          Tail(store))

\* the value of self.tag_index after build_tag_index
build_tag_index == TagIndexLoop(tag_index, item_store)

\* ------------------------------------------------------------------------
\* ContentBasedRecommender.extract_user_preferences
\* (algorithms/content_based.py lines 42-91)
\* ------------------------------------------------------------------------

\* if rating > 4.0
IsHighRating(rating) == rating > 4

\* feature_map[feature] = 1 for a new feature, the count plus 1 otherwise
CountFeature(feature_map, feature) ==
    IF ~DictHas(feature_map, feature)
    THEN DictSet(feature_map, feature, 1)
    ELSE DictSet(feature_map, feature, DictAt(feature_map, feature) + 1)

\* for tag in item_object.tags
RECURSIVE TagCountLoop(_, _)
TagCountLoop(feature_map, item_tags) ==
    IF item_tags = <<>>
    THEN feature_map
    ELSE TagCountLoop(CountFeature(feature_map, item_tags[1]), Tail(item_tags))

\* the loop over user_rating_map.items(): the counters, or the exception
\* that ends the loop.  get_item gives None for an id the item store does
\* not hold (AttributeError on .category) and a for loop over tags that
\* are None raises TypeError.
RECURSIVE PreferenceLoop(_, _)
PreferenceLoop(counted, user_rating_map) ==
    IF user_rating_map = <<>> \/ counted.exc # "none"
    THEN counted
    ELSE LET item_id == user_rating_map[1][1]
             rating == user_rating_map[1][2]
             item_object == get_item(item_id).ret
         IN  IF ~IsHighRating(rating)
             THEN PreferenceLoop(counted, Tail(user_rating_map))
             ELSE IF item_object = <<>>
             THEN [counted EXCEPT !.exc = "AttributeError"]
             ELSE IF item_object[1].tags = <<>>
             THEN [counted EXCEPT !.exc = "TypeError"]
             ELSE PreferenceLoop(
                      [feature_map |->
                           TagCountLoop(CountFeature(counted.feature_map,
                                                     item_object[1].category),
                                        item_object[1].tags[1]),
                       total_items |-> counted.total_items + 1,
                       exc |-> "none"],
                      Tail(user_rating_map))

\* feature_weight = number_of_ratings / total_items, kept as the fraction
Weight(number_of_ratings, total_items) ==
    [count |-> number_of_ratings, total |-> total_items]

\* the record of the call extract_user_preferences(user_id): None for a
\* user without ratings, else the map feature -> weight in the order the
\* features were first counted
extract_user_preferences(user_id) ==
    LET got == DictGet(user_rating_store, user_id)
        counted == PreferenceLoop([feature_map |-> <<>>, total_items |-> 0, exc |-> "none"],
                                  got[1])
        args == <<user_id>>
    IN  IF got = <<>> \/ got[1] = <<>>
        THEN Returned("extract_user_preferences", args, <<>>)
        ELSE IF counted.exc # "none"
        THEN Raised("extract_user_preferences", args, counted.exc)
        ELSE Returned("extract_user_preferences", args,
                      << [f \in 1..Len(counted.feature_map) |->
                             <<counted.feature_map[f][1],
                               Weight(counted.feature_map[f][2], counted.total_items)>>] >>)

\* ------------------------------------------------------------------------
\* CollaborativeFilterer: the co-occurrence matrix
\* (algorithms/item_collaborative_filtering.py lines 16-77)
\* ------------------------------------------------------------------------

\* the two ids in alphabetic order
ItemTuple(item1, item2) ==
    IF IdRank(item1) < IdRank(item2) THEN <<item1, item2>> ELSE <<item2, item1>>

\* 1 for a new tuple, the count plus 1 for a tuple already in the matrix
CountTuple(matrix, item_tuple) ==
    IF ~DictHas(matrix, item_tuple)
    THEN DictSet(matrix, item_tuple, 1)
    ELSE DictSet(matrix, item_tuple, DictAt(matrix, item_tuple) + 1)

\* for i in range(0, len): for j in range(i + 1, len), from the pair (i, j)
RECURSIVE PairLoop(_, _, _, _)
PairLoop(matrix, list_of_items, i, j) ==
    IF i >= Len(list_of_items)
    THEN matrix
    ELSE IF j >= Len(list_of_items)
    THEN PairLoop(matrix, list_of_items, i + 1, i + 2)
    ELSE PairLoop(CountTuple(matrix, ItemTuple(list_of_items[i + 1], list_of_items[j + 1])),
                  list_of_items, i, j + 1)

\* the loop over user_rating_store.items()
RECURSIVE UserLoop(_, _)
UserLoop(matrix, store) ==
    IF store = <<>>
    THEN matrix
    ELSE UserLoop(PairLoop(matrix, DictKeys(store[1][2]), 0, 1), Tail(store))

\* A variant of build_cooccurence_matrix that keeps counting on top of the
\* matrix it finds.
build_cooccurence_matrix_incremental == UserLoop(cooccurence_matrix, user_rating_store)

\* the value of self.cooccurence_matrix after build_cooccurence_matrix
build_cooccurence_matrix == UserLoop(<<>>, user_rating_store)

get_item_coocurrence(item1_id, item2_id) ==
    LET item_tuple == ItemTuple(item1_id, item2_id)
        coocurrence == DictGet(cooccurence_matrix, item_tuple)
    IN  Returned("get_item_coocurrence", <<item1_id, item2_id>>,
                 IF coocurrence # <<>> /\ coocurrence[1] # 0 THEN coocurrence ELSE <<0>>)

\* ------------------------------------------------------------------------
\* UserCollaborativeFiltering: neighbourhoods, predictions, recommendations
\* (algorithms/user_collaborative_filtering.py)
\* ------------------------------------------------------------------------

\* list[:k]: the first k elements, and for a negative k all but the last
\* -k elements
Take(list, k) ==
    IF k >= 0
    THEN SubSeq(list, 1, Min(k, Len(list)))
    ELSE IF Len(list) + k > 0
    THEN SubSeq(list, 1, Len(list) + k)
    ELSE <<>>

\* the loop that appends the ids of a map while count < n: the first n
\* elements, none for n <= 0
FirstN(list, n) ==
    IF n > 0 THEN SubSeq(list, 1, Min(n, Len(list))) ELSE <<>>

\* the value of a combined score, times 1200: every term is a weight in
\* hundredths times (length - position) / length, for a list of at most
\* four ids (other lengths are left undefined)
RECURSIVE FusedValue(_)
FusedValue(terms) ==
    IF terms = <<>>
    THEN 0
    ELSE LET term == Head(terms)
         IN  (CASE term = <<>> -> 0
                [] term # <<>> /\ term[1].length \in {1, 2, 3, 4} ->
                       term[1].weight * term[1].points * (12 \div term[1].length))
             + FusedValue(Tail(terms))

\* the weights <<content, item_cf, user_cf>>, in hundredths, the floats of
\* the combined scores are tabulated for: the default 0.33, 0.34, 0.33 and
\* 0.5, 0.25, 0.25
TabulatedWeights == {<<33, 34, 33>>, <<50, 25, 25>>}

\* a term as <<weight, points, length>> with the position score
\* points / length in lowest terms (lists of up to three ids), <<>> for no
\* term: (3 - 0) / 3 and (2 - 0) / 2 are the float 1.0
ReducedTerm(term) ==
    IF term = <<>>
    THEN <<>>
    ELSE IF term[1].points = term[1].length
    THEN <<term[1].weight, 1, 1>>
    ELSE <<term[1].weight, term[1].points, term[1].length>>

\* The combined scores 0 + w1 * p1 + w2 * p2 + w3 * p3 of IEEE-754 double
\* arithmetic, added in this order over the terms that are there, that are
\* not the double nearest to their value as a real number, for the
\* weights of TabulatedWeights and the position scores 1, 1/2, 1/3 and
\* 2/3, as <<terms, offset>>: the score is the double below it (-1) or
\* the double above (1).
FusedTable ==
    {<<<<<<>>, <<25, 1, 1>>, <<25, 2, 3>>>>, -1>>,
     <<<<<<>>, <<25, 1, 2>>, <<25, 1, 3>>>>, -1>>,
     <<<<<<>>, <<25, 1, 2>>, <<25, 2, 3>>>>, -1>>,
     <<<<<<>>, <<25, 1, 3>>, <<25, 1, 2>>>>, -1>>,
     <<<<<<>>, <<25, 2, 3>>, <<25, 1, 1>>>>, -1>>,
     <<<<<<>>, <<25, 2, 3>>, <<25, 1, 2>>>>, -1>>,
     <<<<<<>>, <<34, 1, 3>>, <<>>>>, 1>>,
     <<<<<<>>, <<34, 1, 3>>, <<33, 2, 3>>>>, 1>>,
     <<<<<<>>, <<34, 2, 3>>, <<>>>>, 1>>,
     <<<<<<>>, <<34, 2, 3>>, <<33, 1, 2>>>>, 1>>,
     <<<<<<33, 1, 1>>, <<34, 1, 1>>, <<33, 1, 2>>>>, 1>>,
     <<<<<<33, 1, 1>>, <<34, 1, 2>>, <<33, 1, 1>>>>, 1>>,
     <<<<<<33, 1, 1>>, <<34, 1, 3>>, <<33, 1, 1>>>>, 1>>,
     <<<<<<33, 1, 1>>, <<34, 1, 3>>, <<33, 1, 2>>>>, 1>>,
     <<<<<<33, 1, 2>>, <<34, 1, 3>>, <<33, 1, 1>>>>, 1>>,
     <<<<<<33, 1, 2>>, <<34, 1, 3>>, <<33, 2, 3>>>>, -1>>,
     <<<<<<33, 1, 2>>, <<34, 2, 3>>, <<>>>>, 1>>,
     <<<<<<33, 1, 2>>, <<34, 2, 3>>, <<33, 1, 2>>>>, 1>>,
     <<<<<<33, 1, 3>>, <<34, 1, 2>>, <<33, 1, 1>>>>, 1>>,
     <<<<<<33, 1, 3>>, <<34, 1, 2>>, <<33, 1, 2>>>>, 1>>,
     <<<<<<33, 1, 3>>, <<34, 2, 3>>, <<33, 1, 1>>>>, 1>>,
     <<<<<<33, 2, 3>>, <<34, 1, 1>>, <<33, 1, 1>>>>, 1>>,
     <<<<<<33, 2, 3>>, <<34, 1, 1>>, <<33, 1, 2>>>>, 1>>,
     <<<<<<33, 2, 3>>, <<34, 1, 3>>, <<>>>>, 1>>,
     <<<<<<33, 2, 3>>, <<34, 1, 3>>, <<33, 1, 2>>>>, 1>>,
     <<<<<<50, 1, 1>>, <<25, 1, 3>>, <<25, 1, 3>>>>, 1>>,
     <<<<<<50, 1, 1>>, <<25, 2, 3>>, <<25, 2, 3>>>>, -1>>,
     <<<<<<50, 1, 2>>, <<>>, <<25, 2, 3>>>>, -1>>,
     <<<<<<50, 1, 2>>, <<25, 1, 3>>, <<25, 1, 1>>>>, -1>>,
     <<<<<<50, 1, 2>>, <<25, 1, 3>>, <<25, 1, 3>>>>, -1>>,
     <<<<<<50, 1, 2>>, <<25, 2, 3>>, <<>>>>, -1>>,
     <<<<<<50, 1, 2>>, <<25, 2, 3>>, <<25, 1, 3>>>>, -1>>,
     <<<<<<50, 1, 2>>, <<25, 2, 3>>, <<25, 2, 3>>>>, -1>>,
     <<<<<<50, 1, 3>>, <<>>, <<25, 1, 1>>>>, -1>>,
     <<<<<<50, 1, 3>>, <<>>, <<25, 1, 2>>>>, -1>>,
     <<<<<<50, 1, 3>>, <<25, 1, 1>>, <<>>>>, -1>>,
     <<<<<<50, 1, 3>>, <<25, 1, 1>>, <<25, 1, 3>>>>, -1>>,
     <<<<<<50, 1, 3>>, <<25, 1, 1>>, <<25, 2, 3>>>>, -1>>,
     <<<<<<50, 1, 3>>, <<25, 1, 2>>, <<>>>>, -1>>,
     <<<<<<50, 1, 3>>, <<25, 1, 2>>, <<25, 1, 2>>>>, -1>>,
     <<<<<<50, 1, 3>>, <<25, 1, 2>>, <<25, 1, 3>>>>, -1>>,
     <<<<<<50, 1, 3>>, <<25, 1, 2>>, <<25, 2, 3>>>>, -1>>,
     <<<<<<50, 1, 3>>, <<25, 1, 3>>, <<25, 2, 3>>>>, -1>>,
     <<<<<<50, 1, 3>>, <<25, 2, 3>>, <<25, 1, 1>>>>, -1>>,
     <<<<<<50, 1, 3>>, <<25, 2, 3>>, <<25, 1, 3>>>>, -1>>,
     <<<<<<50, 2, 3>>, <<>>, <<25, 1, 1>>>>, -1>>,
     <<<<<<50, 2, 3>>, <<>>, <<25, 1, 3>>>>, -1>>,
     <<<<<<50, 2, 3>>, <<25, 1, 1>>, <<>>>>, -1>>,
     <<<<<<50, 2, 3>>, <<25, 1, 1>>, <<25, 1, 1>>>>, -1>>,
     <<<<<<50, 2, 3>>, <<25, 1, 1>>, <<25, 1, 2>>>>, -1>>,
     <<<<<<50, 2, 3>>, <<25, 1, 1>>, <<25, 2, 3>>>>, -1>>,
     <<<<<<50, 2, 3>>, <<25, 1, 2>>, <<25, 1, 1>>>>, -1>>,
     <<<<<<50, 2, 3>>, <<25, 1, 2>>, <<25, 1, 2>>>>, -1>>,
     <<<<<<50, 2, 3>>, <<25, 1, 3>>, <<>>>>, -1>>,
     <<<<<<50, 2, 3>>, <<25, 1, 3>>, <<25, 1, 3>>>>, -1>>,
     <<<<<<50, 2, 3>>, <<25, 1, 3>>, <<25, 2, 3>>>>, -1>>}

\* the number of doubles the float of a combined score lies above the
\* double nearest to its value; other weights and longer lists are left
\* undefined
FusedOffset(terms) ==
    LET reduced == <<ReducedTerm(terms[1]), ReducedTerm(terms[2]), ReducedTerm(terms[3])>>
    IN  CASE \E w \in TabulatedWeights :
                 \A n \in 1..3 :
                     terms[n] # <<>> => /\ terms[n][1].weight = w[n]
                                        /\ terms[n][1].length \in {1, 2, 3} ->
                 IF <<reduced, -1>> \in FusedTable THEN -1
                 ELSE IF <<reduced, 1>> \in FusedTable THEN 1
                 ELSE 0

\* a > b on the second elements of the tuples of a list: combined scores
\* or similarities.  Two combined scores of different values lie many
\* doubles apart; two of one value compare as their floats do.
SecondGT(a, b) ==
    IF "fused" \in DOMAIN a
    THEN \/ FusedValue(a.fused) > FusedValue(b.fused)
         \/ /\ FusedValue(a.fused) = FusedValue(b.fused)
            /\ FusedOffset(a.fused) > FusedOffset(b.fused)
    ELSE ScoreGT(a, b)

\* utils.sorting.bubble_sort_list_with_tuples_second_element: the orders of
\* the list that are descending by the second element of the tuples.  Equal
\* elements may come in any order, so the sort is a set of possible results.
bubble_sort_list_with_tuples_second_element(list) ==
    LET n == Len(list)
        orders == {f \in [1..n -> 1..n] :
                      /\ \A a, b \in 1..n : f[a] = f[b] => a = b
                      /\ \A a \in 1..(n - 1) :
                             ~SecondGT(list[f[a + 1]][2], list[f[a]][2])}
    IN  {[m \in 1..n |-> list[f[m]]] : f \in orders}

\* (other_user_id, similarity) for every other user of user_store, in dict
\* order
RECURSIVE SimilaritiesFrom(_, _)
SimilaritiesFrom(user_id, store) ==
    IF store = <<>>
    THEN <<>>
    ELSE (IF store[1][1] # user_id
          THEN << <<store[1][1], get_user_similarity(user_id, store[1][1])>> >>
          ELSE <<>>)
         \o SimilaritiesFrom(user_id, Tail(store))

Similarities(user_id) == SimilaritiesFrom(user_id, user_store)

\* the loop over user_store.keys(): the caches build_user_neighbourhoods(k)
\* may leave, starting from the cache as it is
RECURSIVE NeighbourhoodLoop(_, _, _)
NeighbourhoodLoop(cache, users, k) ==
    IF users = <<>>
    THEN {cache}
    ELSE UNION {NeighbourhoodLoop(DictSet(cache, users[1], Take(similarities, k)),
                                  Tail(users), k) :
                   similarities \in
                       bubble_sort_list_with_tuples_second_element(Similarities(users[1]))}

build_user_neighbourhoods(k) ==
    NeighbourhoodLoop(user_neighbourhoods, DictKeys(user_store), k)

\* A variant of get_user_neighborhood that never looks at the cache.
get_user_neighborhood_uncached(user_id, k) ==
    {Take(similarities, k) :
        similarities \in bubble_sort_list_with_tuples_second_element(Similarities(user_id))}

\* the lists get_user_neighborhood(user_id, k) may return when
\* self.user_neighbourhoods is cache
NeighbourhoodFrom(cache, user_id, k) ==
    IF DictHas(cache, user_id)
    THEN {Take(DictAt(cache, user_id), k)}
    ELSE {Take(similarities, k) :
             similarities \in
                 bubble_sort_list_with_tuples_second_element(Similarities(user_id))}

\* the lists get_user_neighborhood(user_id, k) may return
get_user_neighborhood(user_id, k) == NeighbourhoodFrom(user_neighbourhoods, user_id, k)

\* engine.get_rating(user_id, item_id): None for no rating and for a 0
StoredRating(user_id, item_id) == get_rating(user_id, item_id).ret

\* the (rating, similarity) pairs of the neighbours who rated the item
RECURSIVE NeighbourRatings(_, _)
NeighbourRatings(neighbourhood, item_id) ==
    IF neighbourhood = <<>>
    THEN <<>>
    ELSE LET neighbour_rating == StoredRating(neighbourhood[1][1], item_id)
         IN  (IF neighbour_rating # <<>>
              THEN << <<neighbour_rating[1], neighbourhood[1][2]>> >>
              ELSE <<>>)
             \o NeighbourRatings(Tail(neighbourhood), item_id)

\* total_similarity == 0: similarities are never negative, so their float
\* sum is 0 exactly when each of them is 0.0
ZeroTotalSimilarity(ratings_and_sims) ==
    \A n \in 1..Len(ratings_and_sims) : ratings_and_sims[n][2].num = 0

\* weighted_sum / total_similarity: the float is kept as the pairs it is
\* the similarity-weighted average of
WeightedAverage(ratings_and_sims) == [pairs |-> ratings_and_sims]

\* predict_rating for one neighbourhood
PredictFrom(neighbourhood, user_id, item_id, k) ==
    LET ratings_and_sims == NeighbourRatings(neighbourhood, item_id)
        args == <<user_id, item_id, k>>
    IN  IF ratings_and_sims = <<>>
        THEN Returned("predict_rating", args, <<>>)
        ELSE IF ZeroTotalSimilarity(ratings_and_sims)
        THEN Raised("predict_rating", args, "ZeroDivisionError")
        ELSE Returned("predict_rating", args, <<WeightedAverage(ratings_and_sims)>>)

\* the records of the calls predict_rating(user_id, item_id, k) may make
predict_rating(user_id, item_id, k) ==
    {PredictFrom(neighbourhood, user_id, item_id, k) :
        neighbourhood \in get_user_neighborhood(user_id, k)}

\* the ratings that carry weight in a weighted average
WeightedRatings(average) ==
    {average.pairs[n][1] :
        n \in {m \in 1..Len(average.pairs) : average.pairs[m][2].num # 0}}

\* the similarities that carry weight in a weighted average, in the order
\* they are added, each as <<num, den, off>>
RECURSIVE WeightedSimilarities(_)
WeightedSimilarities(pairs) ==
    IF pairs = <<>>
    THEN <<>>
    ELSE (IF pairs[1][2].num # 0
          THEN << <<pairs[1][2].num, pairs[1][2].den, pairs[1][2].off>> >>
          ELSE <<>>)
         \o WeightedSimilarities(Tail(pairs))

\* the similarities <<num, den, off>> of two rating maps of one to three
\* ratings that are all the rating r
UniformSimilarities(r) ==
    {<<r * r * t[3], (r * r * t[1]) * (r * r * t[2]),
       QuotientOffset(r * r * t[3], r * r * t[1], r * r * t[2])>> :
        t \in {x \in (1..3) \X (1..3) \X (1..3) : x[3] <= x[1] /\ x[3] <= x[2]}}

\* The averages (r * s1 + r * s2) / (s1 + s2) and (r * s1) / s1 of
\* IEEE-754 double arithmetic that are not the float r, for r = 3.0 and
\* r = 5.0 and the similarities of UniformSimilarities(r), as
\* <<r, similarities, offset>>: the average is the double below r (-1) or
\* the double above (1).
AverageTable ==
    {<<3, <<<<9, 81, 0>>, <<9, 162, 0>>>>, 1>>,
     <<3, <<<<9, 81, 0>>, <<9, 243, 0>>>>, -1>>,
     <<3, <<<<9, 81, 0>>, <<18, 324, 1>>>>, 1>>,
     <<3, <<<<9, 81, 0>>, <<18, 729, 0>>>>, 1>>,
     <<3, <<<<9, 162, 0>>, <<9, 81, 0>>>>, 1>>,
     <<3, <<<<9, 162, 0>>, <<9, 243, 0>>>>, 1>>,
     <<3, <<<<9, 162, 0>>, <<18, 486, 0>>>>, -1>>,
     <<3, <<<<9, 162, 0>>, <<27, 729, 0>>>>, 1>>,
     <<3, <<<<9, 243, 0>>, <<9, 81, 0>>>>, -1>>,
     <<3, <<<<9, 243, 0>>, <<9, 162, 0>>>>, 1>>,
     <<3, <<<<9, 243, 0>>, <<9, 324, 1>>>>, 1>>,
     <<3, <<<<9, 243, 0>>, <<9, 729, 0>>>>, 1>>,
     <<3, <<<<9, 243, 0>>, <<18, 324, 1>>>>, 1>>,
     <<3, <<<<9, 243, 0>>, <<18, 729, 0>>>>, 1>>,
     <<3, <<<<9, 243, 0>>, <<27, 729, 0>>>>, -1>>,
     <<3, <<<<9, 324, 1>>, <<9, 243, 0>>>>, 1>>,
     <<3, <<<<9, 324, 1>>, <<18, 324, 1>>>>, 1>>,
     <<3, <<<<9, 324, 1>>, <<18, 486, 0>>>>, -1>>, <<3, <<<<9, 486, 0>>>>, -1>>,
     <<3, <<<<9, 486, 0>>, <<9, 486, 0>>>>, -1>>,
     <<3, <<<<9, 486, 0>>, <<9, 729, 0>>>>, -1>>,
     <<3, <<<<9, 729, 0>>, <<9, 243, 0>>>>, 1>>,
     <<3, <<<<9, 729, 0>>, <<9, 486, 0>>>>, -1>>,
     <<3, <<<<9, 729, 0>>, <<18, 324, 1>>>>, 1>>,
     <<3, <<<<18, 324, 1>>, <<9, 81, 0>>>>, 1>>,
     <<3, <<<<18, 324, 1>>, <<9, 243, 0>>>>, 1>>,
     <<3, <<<<18, 324, 1>>, <<9, 324, 1>>>>, 1>>,
     <<3, <<<<18, 324, 1>>, <<9, 729, 0>>>>, 1>>,
     <<3, <<<<18, 324, 1>>, <<27, 729, 0>>>>, 1>>, <<3, <<<<18, 486, 0>>>>, -1>>,
     <<3, <<<<18, 486, 0>>, <<9, 162, 0>>>>, -1>>,
     <<3, <<<<18, 486, 0>>, <<9, 324, 1>>>>, -1>>,
     <<3, <<<<18, 486, 0>>, <<18, 486, 0>>>>, -1>>,
     <<3, <<<<18, 486, 0>>, <<18, 729, 0>>>>, -1>>,
     <<3, <<<<18, 729, 0>>, <<9, 81, 0>>>>, 1>>,
     <<3, <<<<18, 729, 0>>, <<9, 243, 0>>>>, 1>>,
     <<3, <<<<18, 729, 0>>, <<18, 486, 0>>>>, -1>>,
     <<3, <<<<18, 729, 0>>, <<27, 729, 0>>>>, 1>>,
     <<3, <<<<27, 729, 0>>, <<9, 162, 0>>>>, 1>>,
     <<3, <<<<27, 729, 0>>, <<9, 243, 0>>>>, -1>>,
     <<3, <<<<27, 729, 0>>, <<18, 324, 1>>>>, 1>>,
     <<3, <<<<27, 729, 0>>, <<18, 729, 0>>>>, 1>>,
     <<5, <<<<25, 625, 0>>, <<75, 5625, -2>>>>, 1>>,
     <<5, <<<<25, 1250, -1>>, <<50, 2500, -1>>>>, -1>>,
     <<5, <<<<25, 1250, -1>>, <<50, 3750, -1>>>>, 1>>,
     <<5, <<<<25, 1875, 0>>, <<50, 2500, -1>>>>, -1>>,
     <<5, <<<<25, 1875, 0>>, <<50, 3750, -1>>>>, 1>>,
     <<5, <<<<25, 2500, -1>>, <<25, 3750, -1>>>>, -1>>,
     <<5, <<<<25, 2500, -1>>, <<50, 2500, -1>>>>, -1>>,
     <<5, <<<<25, 2500, -1>>, <<75, 5625, -2>>>>, -1>>,
     <<5, <<<<25, 3750, -1>>, <<25, 2500, -1>>>>, -1>>,
     <<5, <<<<25, 3750, -1>>, <<50, 2500, -1>>>>, -1>>,
     <<5, <<<<25, 3750, -1>>, <<50, 5625, -1>>>>, 1>>,
     <<5, <<<<25, 5625, -1>>, <<50, 3750, -1>>>>, -1>>,
     <<5, <<<<50, 2500, -1>>, <<25, 1250, -1>>>>, -1>>,
     <<5, <<<<50, 2500, -1>>, <<25, 1875, 0>>>>, -1>>,
     <<5, <<<<50, 2500, -1>>, <<25, 2500, -1>>>>, -1>>,
     <<5, <<<<50, 2500, -1>>, <<25, 3750, -1>>>>, -1>>,
     <<5, <<<<50, 2500, -1>>, <<50, 3750, -1>>>>, -1>>,
     <<5, <<<<50, 3750, -1>>, <<25, 1250, -1>>>>, 1>>,
     <<5, <<<<50, 3750, -1>>, <<25, 1875, 0>>>>, 1>>,
     <<5, <<<<50, 3750, -1>>, <<25, 5625, -1>>>>, -1>>,
     <<5, <<<<50, 3750, -1>>, <<50, 2500, -1>>>>, -1>>,
     <<5, <<<<50, 3750, -1>>, <<75, 5625, -2>>>>, -1>>,
     <<5, <<<<50, 5625, -1>>, <<25, 3750, -1>>>>, 1>>,
     <<5, <<<<75, 5625, -2>>, <<25, 625, 0>>>>, 1>>,
     <<5, <<<<75, 5625, -2>>, <<25, 2500, -1>>>>, -1>>,
     <<5, <<<<75, 5625, -2>>, <<50, 3750, -1>>>>, -1>>}

\* weighted_sum / total_similarity for ratings that are all r, as the
\* number of doubles the float lies above r.  For r = 1.0, 2.0 or 4.0 every
\* product r * s is exact, the sum of the products is r times the sum of
\* the similarities and the quotient is r; for r = 3.0 and r = 5.0 the
\* roundings of the products show.  Other averages are left undefined.
AverageOffset(r, weights) ==
    CASE r \in {1, 2, 4} -> 0
      [] /\ r \in {3, 5}
         /\ Len(weights) \in {1, 2}
         /\ \A n \in 1..Len(weights) : weights[n] \in UniformSimilarities(r) ->
             IF <<r, weights, -1>> \in AverageTable THEN -1
             ELSE IF <<r, weights, 1>> \in AverageTable THEN 1
             ELSE 0

\* the float of a weighted average whose weighted ratings are all one
\* rating: that rating and the number of doubles the float lies above it.
\* A term rating * 0.0 adds nothing to either sum.
AverageValue(average) ==
    CASE Cardinality(WeightedRatings(average)) = 1 ->
             LET r == CHOOSE x \in WeightedRatings(average) : TRUE
             IN  [rating |-> r,
                  off |-> AverageOffset(r, WeightedSimilarities(average.pairs))]

\* a < b on two weighted averages
AverageLT(a, b) ==
    LET x == AverageValue(a)
        y == AverageValue(b)
    IN  \/ x.rating < y.rating
        \/ x.rating = y.rating /\ x.off < y.off

\* a < b on two content scores points / total.  With one or two
\* qualifying items every weight is a small multiple of 1/2 and the float
\* sum of the products by 10 and by 5 is exact, so the floats compare as
\* the fractions do; other totals are left undefined.
PointsLT(a, b) ==
    CASE a.total \in {1, 2} /\ b.total \in {1, 2} ->
             a.points * b.total < b.points * a.total

\* the terms similarity * rating of an accumulated score that are not 0.0
WeightedTerms(score) ==
    {n \in 1..Len(score.terms) : score.terms[n][1].num # 0 /\ score.terms[n][2] # 0}

\* a < b on two accumulated scores 0 + s1 * r1 + s2 * r2 + ...  Adding 0.0
\* changes nothing, and a few additions of one positive float give a larger
\* float each time, so two sums whose weighted terms are all the same
\* product compare as the numbers of those terms do.  A term is the same
\* float as another when the dot product, the two sums of squares and the
\* rating it is computed from are the same; other pairs of sums are left
\* undefined.
TermsLT(a, b) ==
    LET values == {a.terms[n] : n \in WeightedTerms(a)} \cup {b.terms[n] : n \in WeightedTerms(b)}
    IN  CASE Cardinality(values) <= 1 ->
                 Cardinality(WeightedTerms(a)) < Cardinality(WeightedTerms(b))

\* a < b on the values of a score map
FloatLT(a, b) ==
    IF "pairs" \in DOMAIN a THEN AverageLT(a, b)
    ELSE IF "points" \in DOMAIN a THEN PointsLT(a, b)
    ELSE IF "terms" \in DOMAIN a THEN TermsLT(a, b)
    ELSE ScoreGT(b, a)

\* ------------------------------------------------------------------------
\* utils.sorting.bubble_sort_map_by_values
\* ------------------------------------------------------------------------

\* the inner loop from index j: [list, swapped]
RECURSIVE BubbleInner(_, _, _, _)
BubbleInner(item_list, j, limit, item_swapped) ==
    IF j >= limit
    THEN [list |-> item_list, swapped |-> item_swapped]
    ELSE IF FloatLT(item_list[j + 1][2], item_list[j + 2][2])
    THEN BubbleInner([item_list EXCEPT ![j + 1] = item_list[j + 2],
                                       ![j + 2] = item_list[j + 1]],
                     j + 1, limit, TRUE)
    ELSE BubbleInner(item_list, j + 1, limit, item_swapped)

\* the outer loop from index i, left when a pass swaps nothing
RECURSIVE BubbleOuter(_, _)
BubbleOuter(item_list, i) ==
    IF i >= Len(item_list)
    THEN item_list
    ELSE LET pass == BubbleInner(item_list, 0, Len(item_list) - i - 1, FALSE)
         IN  IF ~pass.swapped THEN pass.list ELSE BubbleOuter(pass.list, i + 1)

bubble_sort_map_by_values(data_map) == BubbleOuter(data_map, 0)

\* ------------------------------------------------------------------------
\* ContentBasedRecommender.recommend
\* (algorithms/content_based.py lines 93-153)
\* ------------------------------------------------------------------------

\* the count of a feature in the preference map, 0 when it is no preference
PreferenceCount(preferences, feature) ==
    IF DictHas(preferences, feature) THEN DictAt(preferences, feature).count ELSE 0

\* the sum of the counts of the tags that are preferences
RECURSIVE TagPoints(_, _)
TagPoints(preferences, item_tags) ==
    IF item_tags = <<>>
    THEN 0
    ELSE PreferenceCount(preferences, item_tags[1]) + TagPoints(preferences, Tail(item_tags))

\* A variant of ContentScore that leaves the tags out of the score.
ContentScore_category_only(preferences, item) ==
    [points |-> 10 * PreferenceCount(preferences, item.category),
     total |-> preferences[1][2].total]

\* 0.0 + weight(category) * 10 + weight(tag) * 5 for each tag, over the
\* common denominator total_items
ContentScore(preferences, item) ==
    [points |-> 10 * PreferenceCount(preferences, item.category)
                + 5 * (IF item.tags # <<>> /\ item.tags[1] # <<>>
                       THEN TagPoints(preferences, item.tags[1])
                       ELSE 0),
     total |-> preferences[1][2].total]

\* the items of item_store the user has no rating for, in dict order
RECURSIVE UnratedItems(_, _)
UnratedItems(store, user_rated_items) ==
    IF store = <<>>
    THEN <<>>
    ELSE (IF DictHas(user_rated_items, store[1][1]) THEN <<>> ELSE <<store[1]>>)
         \o UnratedItems(Tail(store), user_rated_items)

\* the record of the call recommend(user_id, n) of the content scorer
content_recommend(user_id, n) ==
    LET preferences_call == extract_user_preferences(user_id)
        args == <<user_id, n>>
        preferences == preferences_call.ret[1]
        got == DictGet(user_rating_store, user_id)
        user_rated_items == IF got = <<>> THEN <<>> ELSE got[1]
        candidates == UnratedItems(item_store, user_rated_items)
        candidate_score_map ==
            [c \in 1..Len(candidates) |->
                <<candidates[c][1], ContentScore(preferences, candidates[c][2])>>]
    IN  IF preferences_call.exc # "none"
        THEN Raised("content_recommend", args, preferences_call.exc)
        ELSE IF preferences_call.ret = <<>> \/ preferences = <<>>
        THEN Returned("content_recommend", args, << <<>> >>)
        ELSE Returned("content_recommend", args,
                      <<FirstN(DictKeys(bubble_sort_map_by_values(candidate_score_map)), n)>>)

\* ------------------------------------------------------------------------
\* UserCollaborativeFiltering.recommend
\* ------------------------------------------------------------------------

\* the loop over the ratings of one neighbour: an item the target user has
\* no rating for gets the pair (rating, similarity) appended
RECURSIVE CandidateItemLoop(_, _, _, _)
CandidateItemLoop(candidate_items, neighbour_ratings, similarity, user_id) ==
    IF neighbour_ratings = <<>>
    THEN candidate_items
    ELSE LET item_id == neighbour_ratings[1][1]
             rating == neighbour_ratings[1][2]
             so_far == IF DictHas(candidate_items, item_id)
                       THEN DictAt(candidate_items, item_id)
                       ELSE <<>>
         IN  CandidateItemLoop(
                 IF StoredRating(user_id, item_id) = <<>>
                 THEN DictSet(candidate_items, item_id, Append(so_far, <<rating, similarity>>))
                 ELSE candidate_items,
                 Tail(neighbour_ratings), similarity, user_id)

\* the loop over the neighbourhood
RECURSIVE CandidateLoop(_, _, _)
CandidateLoop(candidate_items, neighbourhood, user_id) ==
    IF neighbourhood = <<>>
    THEN candidate_items
    ELSE LET got == DictGet(user_rating_store, neighbourhood[1][1])
             neighbour_ratings == IF got = <<>> THEN <<>> ELSE got[1]
         IN  CandidateLoop(
                 CandidateItemLoop(candidate_items, neighbour_ratings,
                                   neighbourhood[1][2], user_id),
                 Tail(neighbourhood), user_id)

\* recommend for one neighbourhood
RecommendFrom(neighbourhood, user_id, n, k) ==
    LET candidate_items == CandidateLoop(<<>>, neighbourhood, user_id)
        args == <<user_id, n, k>>
        candidate_scores ==
            [c \in 1..Len(candidate_items) |->
                <<candidate_items[c][1], WeightedAverage(candidate_items[c][2])>>]
    IN  IF \E c \in 1..Len(candidate_items) : ZeroTotalSimilarity(candidate_items[c][2])
        THEN Raised("user_cf_recommend", args, "ZeroDivisionError")
        ELSE Returned("user_cf_recommend", args,
                      <<FirstN(DictKeys(bubble_sort_map_by_values(candidate_scores)), n)>>)

\* the records of the calls recommend(user_id, n, k) may make
user_cf_recommend(user_id, n, k) ==
    {RecommendFrom(neighbourhood, user_id, n, k) :
        neighbourhood \in get_user_neighborhood(user_id, k)}

\* ------------------------------------------------------------------------
\* CollaborativeFilterer.recommend
\* (algorithms/item_collaborative_filtering.py lines 95-143)
\* ------------------------------------------------------------------------

\* item1_sum and item2_sum of get_item_similarity(item1_id, item2_id), as a
\* set: with the dot product they fix the float the call returns
Magnitudes(item1_id, item2_id) ==
    LET got1 == DictGet(item_rating_store, item1_id)
        got2 == DictGet(item_rating_store, item2_id)
    IN  {IF got1 = <<>> THEN 0 ELSE SumSquares(got1[1]),
         IF got2 = <<>> THEN 0 ELSE SumSquares(got2[1])}

\* candidate_scores[similar_item_id] grows by similarity * rating: a score
\* is the sequence of the terms (similarity, rating, magnitudes) added to
\* the initial 0
AddTerm(candidate_scores, item_id, similar_item_id, rating) ==
    LET so_far == IF DictHas(candidate_scores, similar_item_id)
                  THEN DictAt(candidate_scores, similar_item_id)
                  ELSE [terms |-> <<>>]
        similarity == get_item_similarity(item_id, similar_item_id)
    IN  DictSet(candidate_scores, similar_item_id,
                [terms |-> Append(so_far.terms,
                                  <<similarity, rating, Magnitudes(item_id, similar_item_id)>>)])

\* for similar_item_id in similar_items
RECURSIVE SimilarItemLoop(_, _, _, _)
SimilarItemLoop(candidate_scores, similar_items, item_id, rating) ==
    IF similar_items = <<>>
    THEN candidate_scores
    ELSE SimilarItemLoop(
             AddTerm(candidate_scores, item_id, similar_items[1], rating),
             Tail(similar_items), item_id, rating)

\* for item_id, rating in user_rating_map.items()
RECURSIVE RatedItemLoop(_, _)
RatedItemLoop(candidate_scores, user_rating_map) ==
    IF user_rating_map = <<>>
    THEN candidate_scores
    ELSE LET item_id == user_rating_map[1][1]
             rating == user_rating_map[1][2]
             similar_items == get_top_k_similar_items(item_id, 10).ret[1]
         IN  RatedItemLoop(
                 SimilarItemLoop(candidate_scores, similar_items, item_id, rating),
                 Tail(user_rating_map))

\* A variant of the filter that keeps every candidate.
FilterRated_keep_all(candidate_scores, user_rating_map) == candidate_scores

\* the candidates the user has not rated, in the order of candidate_scores
RECURSIVE FilterRated(_, _)
FilterRated(candidate_scores, user_rating_map) ==
    IF candidate_scores = <<>>
    THEN <<>>
    ELSE (IF DictHas(user_rating_map, candidate_scores[1][1])
          THEN <<>>
          ELSE <<candidate_scores[1]>>)
         \o FilterRated(Tail(candidate_scores), user_rating_map)

item_cf_recommend(user_id, n) ==
    LET got == DictGet(user_rating_store, user_id)
        args == <<user_id, n>>
    IN  IF got = <<>>
        THEN Returned("item_cf_recommend", args, << <<>> >>)
        ELSE IF got[1] = <<>>
        THEN Returned("item_cf_recommend", args, << <<>> >>)
        ELSE LET candidate_scores == RatedItemLoop(<<>>, got[1])
                 final_candidate_scores == FilterRated(candidate_scores, got[1])
             IN  Returned("item_cf_recommend", args,
                          <<Take(DictKeys(bubble_sort_map_by_values(final_candidate_scores)), n)>>)

\* ------------------------------------------------------------------------
\* utils.sorting.bubble_sort_list_with_tuples and
\* CollaborativeFilterer.find_frequent_pairs
\* (utils/sorting.py lines 38-52,
\* algorithms/item_collaborative_filtering.py lines 79-93)
\* ------------------------------------------------------------------------

\* for j in range(i+1, len(list)): exchange when the count at i is smaller
RECURSIVE ExchangeInner(_, _, _)
ExchangeInner(list_with_tuples, i, j) ==
    IF j >= Len(list_with_tuples)
    THEN list_with_tuples
    ELSE IF list_with_tuples[i + 1][3] < list_with_tuples[j + 1][3]
    THEN ExchangeInner([list_with_tuples EXCEPT ![i + 1] = list_with_tuples[j + 1],
                                                ![j + 1] = list_with_tuples[i + 1]],
                       i, j + 1)
    ELSE ExchangeInner(list_with_tuples, i, j + 1)

\* for i in range(0, len(list))
RECURSIVE ExchangeOuter(_, _)
ExchangeOuter(list_with_tuples, i) ==
    IF i >= Len(list_with_tuples)
    THEN list_with_tuples
    ELSE ExchangeOuter(ExchangeInner(list_with_tuples, i, i + 1), i + 1)

bubble_sort_list_with_tuples(list_with_tuples) == ExchangeOuter(list_with_tuples, 0)

\* if coocurrence > min_count
IsFrequent(coocurrence, min_count) == coocurrence > min_count

\* the loop over the co-occurrence matrix
RECURSIVE FrequentPairLoop(_, _)
FrequentPairLoop(matrix, min_count) ==
    IF matrix = <<>>
    THEN <<>>
    ELSE (IF IsFrequent(matrix[1][2], min_count)
          THEN << <<matrix[1][1][1], matrix[1][1][2], matrix[1][2]>> >>
          ELSE <<>>)
         \o FrequentPairLoop(Tail(matrix), min_count)

find_frequent_pairs(min_count) ==
    Returned("find_frequent_pairs", <<min_count>>,
             <<bubble_sort_list_with_tuples(FrequentPairLoop(cooccurence_matrix, min_count))>>)

\* ------------------------------------------------------------------------
\* HybridRecommender.get_hybrid_recommendations
\* (algorithms/hybrid.py lines 22-125)
\*
\* Weights are counted in hundredths: 33 stands for the float 0.33.
\* ------------------------------------------------------------------------

\* k: int = 10 of recommend and build_user_neighbourhoods
DefaultK == 10

\* the weights used when none are passed
DefaultWeights == [content |-> 33, item_cf |-> 34, user_cf |-> 33]

\* position_map[item]: the index enumerate gives the id, the last one
\* should the list name it twice
PositionOf(recommendations, item) ==
    (CHOOSE n \in 1..Len(recommendations) :
        /\ recommendations[n] = item
        /\ \A m \in (n + 1)..Len(recommendations) : recommendations[m] # item) - 1

\* weight * position_score of one list for an item: nothing when the list
\* does not name it
PositionTerm(weight, recommendations, item) ==
    IF \E n \in 1..Len(recommendations) : recommendations[n] = item
    THEN << [weight |-> weight,
             points |-> Len(recommendations) - PositionOf(recommendations, item),
             length |-> Len(recommendations)] >>
    ELSE <<>>

\* A variant of the combined score in which the user-based list carries no
\* weight.
combined_score_without_user_cf(weights, content, item_cf, user_cf, item) ==
    [fused |-> <<PositionTerm(weights.content, content, item),
                 PositionTerm(weights.item_cf, item_cf, item),
                 <<>> >>]

combined_score(weights, content, item_cf, user_cf, item) ==
    [fused |-> <<PositionTerm(weights.content, content, item),
                 PositionTerm(weights.item_cf, item_cf, item),
                 PositionTerm(weights.user_cf, user_cf, item)>>]

\* list(set(a) | set(b) | set(c)): the ids of the three lists, each once.
\* The order a set is listed in is not fixed; the sort that follows gives
\* the same results for any.
RECURSIVE UnionList(_, _)
UnionList(seen, ids) ==
    IF ids = <<>>
    THEN seen
    ELSE UnionList(IF \E n \in 1..Len(seen) : seen[n] = Head(ids)
                   THEN seen
                   ELSE Append(seen, Head(ids)),
                   Tail(ids))

\* the lists the fusion of three lists may return
Fuse(weights, content, item_cf, user_cf, n) ==
    LET union_list == UnionList(<<>>, content \o item_cf \o user_cf)
        combined_score_list ==
            [m \in 1..Len(union_list) |->
                <<union_list[m],
                  combined_score(weights, content, item_cf, user_cf, union_list[m])>>]
    IN  {Take(DictKeys(sorted), n) :
            sorted \in bubble_sort_list_with_tuples_second_element(combined_score_list)}

\* the records of the calls get_hybrid_recommendations(user_id, n, weights)
\* may make when self.user_neighbourhoods is cache; weights is <<>> for
\* None.  The three scorers are called in turn with 2 * n, the user-based
\* one with its default k = 10, and an exception of a scorer ends the call.
HybridFrom(cache, user_id, n, weights) ==
    LET args == <<user_id, n, weights>>
        used == IF weights = <<>> THEN DefaultWeights ELSE weights[1]
        content == content_recommend(user_id, 2 * n)
        item_cf == item_cf_recommend(user_id, 2 * n)
    IN  IF content.exc # "none"
        THEN {Raised("get_hybrid_recommendations", args, content.exc)}
        ELSE UNION {LET user_cf == RecommendFrom(neighbourhood, user_id, 2 * n, DefaultK)
                    IN  IF user_cf.exc # "none"
                        THEN {Raised("get_hybrid_recommendations", args, user_cf.exc)}
                        ELSE {Returned("get_hybrid_recommendations", args, <<result>>) :
                                 result \in Fuse(used, content.ret[1], item_cf.ret[1],
                                                 user_cf.ret[1], n)} :
                       neighbourhood \in NeighbourhoodFrom(cache, user_id, DefaultK)}

\* the records of the calls get_hybrid_recommendations(user_id, n, weights)
\* may make
get_hybrid_recommendations(user_id, n, weights) ==
    HybridFrom(user_neighbourhoods, user_id, n, weights)

\* ------------------------------------------------------------------------
\* RecommendationEngine.batch_recommend (core/recommender.py lines 469-517)
\* ------------------------------------------------------------------------

\* the loop over user_ids of batch_recommend when the neighbourhoods are
\* cache: the ways it may end, with the exception that ended it or the
\* results dictionary.  Every user gets get_hybrid_recommendations(user_id,
\* n) with the default weights, and an exception of it ends the loop.
RECURSIVE BatchLoop(_, _, _, _)
BatchLoop(cache, results, user_ids, n) ==
    IF user_ids = <<>>
    THEN {[exc |-> "none", ret |-> <<results>>]}
    ELSE UNION {IF recommendations.exc # "none"
                THEN {[exc |-> recommendations.exc, ret |-> <<>>]}
                ELSE BatchLoop(cache,
                               DictSet(results, Head(user_ids), recommendations.ret[1]),
                               Tail(user_ids), n) :
                   recommendations \in HybridFrom(cache, Head(user_ids), n, <<>>)}

\* batch_recommend(user_ids, n): each of the four derived structures is
\* built when it is empty, the neighbourhoods with k = 10, and the loop
\* runs with the neighbourhoods the build leaves
batch_recommend(user_ids, n) ==
    /\ \E cache \in (IF user_neighbourhoods = <<>>
                     THEN build_user_neighbourhoods(DefaultK)
                     ELSE {user_neighbourhoods}) :
           /\ user_neighbourhoods' = cache
           /\ \E outcome \in BatchLoop(cache, <<>>, user_ids, n) :
                  call' = [op |-> "batch_recommend", args |-> <<user_ids, n>>,
                           exc |-> outcome.exc, ret |-> outcome.ret]
    /\ cooccurence_matrix' = (IF cooccurence_matrix = <<>>
                              THEN build_cooccurence_matrix
                              ELSE cooccurence_matrix)
    /\ category_index' = (IF category_index = <<>>
                          THEN build_category_index
                          ELSE category_index)
    /\ tag_index' = (IF tag_index = <<>> THEN build_tag_index ELSE tag_index)
    /\ UNCHANGED <<storeVars, last_rated>>

\* ------------------------------------------------------------------------
\* Spec: any calls of the store's interface, duplicate and unknown ids and
\* the rating 0 included
\* ------------------------------------------------------------------------

CanMutate == nops < MaxOps

Mutated == nops' = nops + 1 /\ UNCHANGED heapVars

QueryOps ==
    {"get_user", "get_item", "get_rating", "get_user_vector", "get_item_vector",
     "get_item_popularity", "get_top_k_popular_items", "get_top_k_similar_items",
     "get_item_similarity", "get_user_similarity", "get_item_coocurrence",
     "get_user_neighborhood", "predict_rating", "user_cf_recommend",
     "extract_user_preferences", "content_recommend", "item_cf_recommend",
     "get_hybrid_recommendations", "find_frequent_pairs"}

\* A query changes nothing but the record of the call, so a query made after
\* a query reaches the state the second query alone reaches: queries are
\* taken from the states a mutating call (or the constructor) has left.
CanQuery == call.op \notin QueryOps

Queried == UNCHANGED <<storeVars, derivedVars, last_rated, nops, heapVars>>

AddUser == CanMutate /\ \E u \in UserIds : add_user(u) /\ Mutated

AddItem == CanMutate /\ \E i \in ItemIds : add_item(i) /\ Mutated

AddRating == CanMutate /\ \E u \in UserIds, i \in ItemIds, r \in Ratings : add_rating(u, i, r) /\ Mutated

GetUser == CanQuery /\ \E u \in UserIds : call' = get_user(u) /\ Queried

GetItem == CanQuery /\ \E i \in ItemIds : call' = get_item(i) /\ Queried

GetRating == CanQuery /\ \E u \in UserIds, i \in ItemIds : call' = get_rating(u, i) /\ Queried

GetUserVector == CanQuery /\ \E u \in UserIds : call' = get_user_vector(u) /\ Queried

GetItemVector == CanQuery /\ \E i \in ItemIds : call' = get_item_vector(i) /\ Queried

GetItemPopularity == CanQuery /\ \E i \in ItemIds : call' = get_item_popularity(i) /\ Queried

Next ==
    \/ AddUser
    \/ AddItem
    \/ AddRating
    \/ GetUser
    \/ GetItem
    \/ GetRating
    \/ GetUserVector
    \/ GetItemVector
    \/ GetItemPopularity

Spec == Init /\ [][Next]_vars

\* ------------------------------------------------------------------------
\* SpecSim: the same calls of the mutators, and the two similarity queries
\* ------------------------------------------------------------------------

GetItemSimilarity ==
    CanQuery /\ \E a \in ItemIds, b \in ItemIds :
        /\ call' = Quotient("get_item_similarity", <<a, b>>, get_item_similarity(a, b))
        /\ Queried

GetUserSimilarity ==
    CanQuery /\ \E a \in UserIds, b \in UserIds :
        /\ call' = Quotient("get_user_similarity", <<a, b>>, get_user_similarity(a, b))
        /\ Queried

NextSim ==
    \/ AddUser
    \/ AddItem
    \/ AddRating
    \/ GetItemSimilarity
    \/ GetUserSimilarity

SpecSim == Init /\ [][NextSim]_vars

\* ------------------------------------------------------------------------
\* SpecRank: a catalogue filled the intended way (each id registered once,
\* ratings positive and on registered ids) and queried for its top k
\* ------------------------------------------------------------------------

MaxRankOps == 7

MaxK == 2

RankUserIds == {"u1", "u2"}
RankItemIds == {"i1", "i2", "i3"}
RankRatings == {1, 2}

CanRank == nops < MaxRankOps

RegisterUser ==
    CanRank /\ \E u \in RankUserIds : ~DictHas(user_store, u) /\ add_user(u) /\ Mutated

RegisterItem ==
    CanRank /\ \E i \in RankItemIds : ~DictHas(item_store, i) /\ add_item(i) /\ Mutated

Rate ==
    CanRank /\ \E u \in RankUserIds, i \in RankItemIds, r \in RankRatings :
        /\ DictHas(user_store, u)
        /\ DictHas(item_store, i)
        /\ add_rating(u, i, r)
        /\ Mutated

TopKPopular == CanQuery /\ \E k \in 1..MaxK : call' = get_top_k_popular_items(k) /\ Queried

TopKSimilar ==
    CanQuery /\ \E i \in RankItemIds, k \in 1..MaxK : call' = get_top_k_similar_items(i, k) /\ Queried

ItemSimilarity ==
    CanQuery /\ \E a \in RankItemIds, b \in RankItemIds :
        /\ call' = Quotient("get_item_similarity", <<a, b>>, get_item_similarity(a, b))
        /\ Queried

NextRank ==
    \/ RegisterUser
    \/ RegisterItem
    \/ Rate
    \/ TopKPopular
    \/ TopKSimilar
    \/ ItemSimilarity

SpecRank == Init /\ [][NextRank]_vars

\* ------------------------------------------------------------------------
\* SpecHood: users, items and positive ratings registered the intended way,
\* the neighbourhood cache built from them and the neighbourhoods read.
\* SpecPredict: the same stores and cache, with predictions and
\* recommendations asked of the user-neighbourhood scorer.
\* ------------------------------------------------------------------------

MaxHoodOps == 6

HoodUserIds == {"u1", "u2", "u3"}
HoodItemIds == {"i1", "i2"}
HoodRatings == {1, 2}

CanHood == nops < MaxHoodOps

HoodRegisterUser ==
    CanHood /\ \E u \in HoodUserIds : ~DictHas(user_store, u) /\ add_user(u) /\ Mutated

HoodRegisterItem ==
    CanHood /\ \E i \in HoodItemIds : ~DictHas(item_store, i) /\ add_item(i) /\ Mutated

HoodRate ==
    CanHood /\ \E u \in HoodUserIds, i \in HoodItemIds, r \in HoodRatings :
        /\ DictHas(user_store, u)
        /\ DictHas(item_store, i)
        /\ add_rating(u, i, r)
        /\ Mutated

BuildUserNeighbourhoods ==
    \E k \in 1..MaxK :
        /\ user_neighbourhoods' \in build_user_neighbourhoods(k)
        /\ call' = Returned("build_user_neighbourhoods", <<k>>, <<>>)
        /\ Mutated
        /\ UNCHANGED <<storeVars, category_index, tag_index, cooccurence_matrix, last_rated>>

HoodBuildUserNeighbourhoods == CanHood /\ BuildUserNeighbourhoods

GetUserNeighborhood ==
    CanQuery /\ \E u \in HoodUserIds, k \in 1..MaxK :
        /\ \E neighbourhood \in get_user_neighborhood(u, k) :
               call' = Returned("get_user_neighborhood", <<u, k>>, <<neighbourhood>>)
        /\ Queried

PredictRating ==
    CanQuery /\ \E u \in HoodUserIds, i \in HoodItemIds, k \in 1..MaxK :
        /\ call' \in predict_rating(u, i, k)
        /\ Queried

UserCFRecommend ==
    CanQuery /\ \E u \in HoodUserIds, n \in 1..MaxK, k \in 1..MaxK :
        /\ call' \in user_cf_recommend(u, n, k)
        /\ Queried

NextHood ==
    \/ HoodRegisterUser
    \/ HoodRegisterItem
    \/ HoodRate
    \/ HoodBuildUserNeighbourhoods
    \/ GetUserNeighborhood

SpecHood == Init /\ [][NextHood]_vars

NextPredict ==
    \/ HoodRegisterUser
    \/ HoodRegisterItem
    \/ HoodRate
    \/ HoodBuildUserNeighbourhoods
    \/ PredictRating
    \/ UserCFRecommend

SpecPredict == Init /\ [][NextPredict]_vars

\* ------------------------------------------------------------------------
\* SpecIndex: items registered and the two content indices built
\* ------------------------------------------------------------------------

MaxIndexOps == 5

CanIndex == nops < MaxIndexOps

IndexRegisterItem ==
    CanIndex /\ \E i \in AllItemIds : ~DictHas(item_store, i) /\ add_item(i) /\ Mutated

BuildCategoryIndex ==
    /\ category_index' = build_category_index
    /\ call' = Returned("build_category_index", <<>>, <<>>)
    /\ Mutated
    /\ UNCHANGED <<storeVars, tag_index, cooccurence_matrix, user_neighbourhoods, last_rated>>

BuildTagIndex ==
    /\ tag_index' = build_tag_index
    /\ call' = Returned("build_tag_index", <<>>, <<>>)
    /\ Mutated
    /\ UNCHANGED <<storeVars, category_index, cooccurence_matrix, user_neighbourhoods, last_rated>>

IndexBuildCategoryIndex == CanIndex /\ BuildCategoryIndex

IndexBuildTagIndex == CanIndex /\ BuildTagIndex

NextIndex ==
    \/ IndexRegisterItem
    \/ IndexBuildCategoryIndex
    \/ IndexBuildTagIndex

SpecIndex == Init /\ [][NextIndex]_vars

\* ------------------------------------------------------------------------
\* SpecCooc: users, items and ratings registered the intended way, the
\* co-occurrence matrix built from them and read
\* ------------------------------------------------------------------------

MaxCoocOps == 9

CoocUserIds == {"u1", "u2"}
CoocItemIds == {"i1", "i2", "i3"}
CoocRatings == {1}

CanCooc == nops < MaxCoocOps

CoocRegisterUser ==
    CanCooc /\ \E u \in CoocUserIds : ~DictHas(user_store, u) /\ add_user(u) /\ Mutated

CoocRegisterItem ==
    CanCooc /\ \E i \in CoocItemIds : ~DictHas(item_store, i) /\ add_item(i) /\ Mutated

CoocRate ==
    CanCooc /\ \E u \in CoocUserIds, i \in CoocItemIds, r \in CoocRatings :
        /\ DictHas(user_store, u)
        /\ DictHas(item_store, i)
        /\ add_rating(u, i, r)
        /\ Mutated

BuildCooccurenceMatrix ==
    /\ cooccurence_matrix' = build_cooccurence_matrix
    /\ call' = Returned("build_cooccurence_matrix", <<>>, <<build_cooccurence_matrix>>)
    /\ Mutated
    /\ UNCHANGED <<storeVars, category_index, tag_index, user_neighbourhoods, last_rated>>

CoocBuildCooccurenceMatrix == CanCooc /\ BuildCooccurenceMatrix

GetItemCoocurrence ==
    CanQuery /\ \E item1_id \in CoocItemIds, item2_id \in CoocItemIds :
        /\ call' = get_item_coocurrence(item1_id, item2_id)
        /\ Queried

NextCooc ==
    \/ CoocRegisterUser
    \/ CoocRegisterItem
    \/ CoocRate
    \/ CoocBuildCooccurenceMatrix
    \/ GetItemCoocurrence

SpecCooc == Init /\ [][NextCooc]_vars

\* ------------------------------------------------------------------------
\* SpecItemCF: the item-based filterer over users, items and ratings
\* registered the intended way: the co-occurrence matrix built and its
\* frequent pairs listed, and recommendations made
\* ------------------------------------------------------------------------

MinCounts == {1, 2}

ItemCFBuildCooccurenceMatrix == CanCooc /\ BuildCooccurenceMatrix

FindFrequentPairs ==
    CanQuery /\ \E min_count \in MinCounts :
        /\ call' = find_frequent_pairs(min_count)
        /\ Queried

ItemCFRecommend ==
    CanQuery /\ \E user_id \in CoocUserIds, n \in 1..MaxK :
        /\ call' = item_cf_recommend(user_id, n)
        /\ Queried

NextItemCF ==
    \/ CoocRegisterUser
    \/ CoocRegisterItem
    \/ CoocRate
    \/ ItemCFBuildCooccurenceMatrix
    \/ FindFrequentPairs
    \/ ItemCFRecommend

SpecItemCF == Init /\ [][NextItemCF]_vars

\* ------------------------------------------------------------------------
\* SpecHybrid: the four recommenders over users, items and ratings
\* registered the intended way, with the neighbourhood cache built at any
\* moment and left to go stale
\* ------------------------------------------------------------------------

MaxHybridOps == 8

HybridUserIds == {"u1", "u2"}
HybridItemIds == {"i1", "i2", "i3"}
HybridRatings == {5}
HybridWeights == {<<>>, <<[content |-> 50, item_cf |-> 25, user_cf |-> 25]>>}
HybridSizes == {1, 2}

\* the user the recommenders are asked about
HybridTargets == {"u1"}

CanHybrid == nops < MaxHybridOps

HybridRegisterUser ==
    CanHybrid /\ \E u \in HybridUserIds : ~DictHas(user_store, u) /\ add_user(u) /\ Mutated

HybridRegisterItem ==
    CanHybrid /\ \E i \in HybridItemIds : ~DictHas(item_store, i) /\ add_item(i) /\ Mutated

HybridRate ==
    CanHybrid /\ \E u \in HybridUserIds, i \in HybridItemIds, r \in HybridRatings :
        /\ DictHas(user_store, u)
        /\ DictHas(item_store, i)
        /\ add_rating(u, i, r)
        /\ Mutated

\* build_user_neighbourhoods() with its default k = 10
HybridBuildUserNeighbourhoods ==
    /\ CanHybrid
    /\ user_neighbourhoods' \in build_user_neighbourhoods(DefaultK)
    /\ call' = Returned("build_user_neighbourhoods", <<DefaultK>>, <<>>)
    /\ Mutated
    /\ UNCHANGED <<storeVars, category_index, tag_index, cooccurence_matrix, last_rated>>

HybridContentRecommend ==
    CanQuery /\ \E user_id \in HybridTargets, n \in HybridSizes :
        /\ call' = content_recommend(user_id, n)
        /\ Queried

HybridItemCFRecommend ==
    CanQuery /\ \E user_id \in HybridTargets, n \in HybridSizes :
        /\ call' = item_cf_recommend(user_id, n)
        /\ Queried

\* recommend(user_id, n) with its default k = 10
HybridUserCFRecommend ==
    CanQuery /\ \E user_id \in HybridTargets, n \in HybridSizes :
        /\ call' \in user_cf_recommend(user_id, n, DefaultK)
        /\ Queried

GetHybridRecommendations ==
    CanQuery /\ \E user_id \in HybridTargets, n \in HybridSizes, weights \in HybridWeights :
        /\ call' \in get_hybrid_recommendations(user_id, n, weights)
        /\ Queried

NextHybrid ==
    \/ HybridRegisterUser
    \/ HybridRegisterItem
    \/ HybridRate
    \/ HybridBuildUserNeighbourhoods
    \/ HybridContentRecommend
    \/ HybridItemCFRecommend
    \/ HybridUserCFRecommend
    \/ GetHybridRecommendations

SpecHybrid == Init /\ [][NextHybrid]_vars

\* ------------------------------------------------------------------------
\* SpecHeap: a MinHeap pushed on, popped and peeked at
\* ------------------------------------------------------------------------

MaxHeapOps == 6

CanHeap == nops < MaxHeapOps

HeapPush ==
    CanHeap /\ \E item \in HeapItems :
        /\ min_heap' = push(min_heap, item)
        /\ pushed' = [pushed EXCEPT ![item] = @ + 1]
        /\ call' = Returned("push", <<item>>, <<>>)
        /\ nops' = nops + 1
        /\ UNCHANGED <<storeVars, derivedVars, last_rated, popped>>

\* pop of an empty heap raises IndexError at self.heap[0]
HeapPop ==
    /\ CanHeap
    /\ IF Len(min_heap) = 0
       THEN /\ call' = Raised("pop", <<>>, "IndexError")
            /\ UNCHANGED <<min_heap, popped>>
       ELSE /\ min_heap' = pop(min_heap).heap
            /\ popped' = [popped EXCEPT ![pop(min_heap).value] = @ + 1]
            /\ call' = Returned("pop", <<>>, <<pop(min_heap).value>>)
    /\ nops' = nops + 1
    /\ UNCHANGED <<storeVars, derivedVars, last_rated, pushed>>

\* peek of an empty heap returns None
HeapPeek ==
    /\ call.op # "peek"
    /\ call' = Returned("peek", <<>>, IF Len(min_heap) = 0 THEN <<>> ELSE <<peek(min_heap)>>)
    /\ UNCHANGED <<storeVars, derivedVars, last_rated, nops, heapVars>>

NextHeap ==
    \/ HeapPush
    \/ HeapPop
    \/ HeapPeek

SpecHeap == Init /\ [][NextHeap]_vars

\* ------------------------------------------------------------------------
\* SpecCache: the stores written after the four derived structures have
\* been built
\* ------------------------------------------------------------------------

MaxCacheOps == 6

CanCache == nops < MaxCacheOps

CacheRegisterUser ==
    CanCache /\ \E u \in HoodUserIds : ~DictHas(user_store, u) /\ add_user(u) /\ Mutated

CacheRegisterItem ==
    CanCache /\ \E i \in HoodItemIds : ~DictHas(item_store, i) /\ add_item(i) /\ Mutated

CacheRate ==
    CanCache /\ \E u \in HoodUserIds, i \in HoodItemIds, r \in HoodRatings :
        /\ DictHas(user_store, u)
        /\ DictHas(item_store, i)
        /\ add_rating(u, i, r)
        /\ Mutated

CacheBuildCategoryIndex == CanCache /\ BuildCategoryIndex

CacheBuildTagIndex == CanCache /\ BuildTagIndex

CacheBuildCooccurenceMatrix == CanCache /\ BuildCooccurenceMatrix

CacheBuildUserNeighbourhoods == CanCache /\ BuildUserNeighbourhoods

\* the lists of users and the sizes batch_recommend is called with
BatchUserLists == {<<>>, <<"u1">>, <<"u2", "u1">>}
BatchSizes == {1, 2}

BatchRecommend ==
    CanCache /\ \E user_ids \in BatchUserLists, n \in BatchSizes :
        /\ batch_recommend(user_ids, n)
        /\ Mutated

NextCache ==
    \/ CacheRegisterUser
    \/ CacheRegisterItem
    \/ CacheRate
    \/ CacheBuildCategoryIndex
    \/ CacheBuildTagIndex
    \/ CacheBuildCooccurenceMatrix
    \/ CacheBuildUserNeighbourhoods
    \/ BatchRecommend

SpecCache == Init /\ [][NextCache]_vars

\* ------------------------------------------------------------------------
\* SpecContent: one user rating the items of the catalogue at and above the
\* threshold, the preferences extracted and the content scorer asked
\* ------------------------------------------------------------------------

MaxContentOps == 7

ContentUserIds == {"u1"}
ContentItemIds == {"i1", "i2", "i3", "i4"}
ContentRatings == {4, 5}

CanContent == nops < MaxContentOps

ContentRegisterUser ==
    CanContent /\ \E u \in ContentUserIds : ~DictHas(user_store, u) /\ add_user(u) /\ Mutated

ContentRegisterItem ==
    CanContent /\ \E i \in ContentItemIds : ~DictHas(item_store, i) /\ add_item(i) /\ Mutated

ContentRate ==
    CanContent /\ \E u \in ContentUserIds, i \in ContentItemIds, r \in ContentRatings :
        /\ DictHas(user_store, u)
        /\ DictHas(item_store, i)
        /\ add_rating(u, i, r)
        /\ Mutated

ExtractUserPreferences ==
    CanQuery /\ \E u \in ContentUserIds :
        /\ call' = extract_user_preferences(u)
        /\ Queried

ContentRecommend ==
    CanQuery /\ \E u \in ContentUserIds, n \in 1..MaxK :
        /\ call' = content_recommend(u, n)
        /\ Queried

NextContent ==
    \/ ContentRegisterUser
    \/ ContentRegisterItem
    \/ ContentRate
    \/ ExtractUserPreferences
    \/ ContentRecommend

SpecContent == Init /\ [][NextContent]_vars

\* ------------------------------------------------------------------------
\* Vocabulary of the claims
\* ------------------------------------------------------------------------

IsRegisteredUser(u) == DictHas(user_store, u)

IsRegisteredItem(i) == DictHas(item_store, i)

\* user_rating_store[u][i] exists / item_rating_store[i][u] exists
UserRated(u, i) ==
    DictHas(user_rating_store, u) /\ DictHas(DictAt(user_rating_store, u), i)

ItemRated(i, u) ==
    DictHas(item_rating_store, i) /\ DictHas(DictAt(item_rating_store, i), u)

UserRating(u, i) == DictAt(DictAt(user_rating_store, u), i)

ItemRating(i, u) == DictAt(DictAt(item_rating_store, i), u)

\* user_item_matrix[user_to_index[u]][item_to_index[i]] exists
HasCell(u, i) ==
    /\ DictHas(user_to_index, u)
    /\ DictHas(item_to_index, i)
    /\ DictAt(user_to_index, u) + 1 \in 1..Len(user_item_matrix)
    /\ DictAt(item_to_index, i) + 1 \in
           1..Len(user_item_matrix[DictAt(user_to_index, u) + 1])

Cell(u, i) ==
    user_item_matrix[DictAt(user_to_index, u) + 1][DictAt(item_to_index, i) + 1]

\* every rating held by either rating store is positive
PositiveRatingsOnly ==
    /\ \A n \in 1..Len(user_rating_store) :
           \A m \in 1..Len(user_rating_store[n][2]) : user_rating_store[n][2][m][2] > 0
    /\ \A n \in 1..Len(item_rating_store) :
           \A m \in 1..Len(item_rating_store[n][2]) : item_rating_store[n][2][m][2] > 0

\* the two directions of an id <-> index map agree
MapsAgree(to_index, from_index) ==
    /\ \A n \in 1..Len(to_index) :
           /\ to_index[n][2] + 1 \in 1..Len(from_index)
           /\ from_index[to_index[n][2] + 1] = to_index[n][1]
    /\ \A r \in 1..Len(from_index) :
           /\ DictHas(to_index, from_index[r])
           /\ DictAt(to_index, from_index[r]) = r - 1

\* ------------------------------------------------------------------------
\* Claims C1 - C4: shape of the matrix and of the index maps
\* ------------------------------------------------------------------------

\* C1: in every reachable state the matrix has one row per user of
\* user_store and every row has one cell per item of item_store.
C1_MatrixDimensions ==
    /\ Len(user_item_matrix) = Len(user_store)
    /\ \A r \in 1..Len(user_item_matrix) :
           Len(user_item_matrix[r]) = Len(item_store)

\* C2: in every reachable state, for every pair (u, i): the rating is in
\* user_rating_store[u][i] iff it is in item_rating_store[i][u], with the
\* same value, and iff the matrix cell of (u, i) holds that value; the cell
\* of a pair without a rating holds 0.
\* It is stated for the states whose stored ratings are all positive, the
\* ratings the store is meant for.
C2_RatingStoresAndMatrixAgree ==
    PositiveRatingsOnly =>
    \A u \in UserIds, i \in ItemIds :
        /\ UserRated(u, i) <=> ItemRated(i, u)
        /\ UserRated(u, i) =>
               /\ ItemRated(i, u) => ItemRating(i, u) = UserRating(u, i)
               /\ HasCell(u, i)
               /\ HasCell(u, i) => Cell(u, i) = UserRating(u, i)
        /\ (HasCell(u, i) /\ ~UserRated(u, i)) => Cell(u, i) = 0

\* C3: every step keeps the index of every id that had one, gives a newly
\* registered id the next index (the number of ids indexed before), and
\* leaves the two directions of both maps in agreement.
C3_IndicesStableAndBijective ==
    [][/\ \A u \in UserIds :
              /\ DictHas(user_to_index, u) =>
                     /\ DictHas(user_to_index', u)
                     /\ DictAt(user_to_index', u) = DictAt(user_to_index, u)
              /\ (~DictHas(user_to_index, u) /\ DictHas(user_to_index', u)) =>
                     DictAt(user_to_index', u) = Len(index_to_user)
       /\ \A i \in ItemIds :
              /\ DictHas(item_to_index, i) =>
                     /\ DictHas(item_to_index', i)
                     /\ DictAt(item_to_index', i) = DictAt(item_to_index, i)
              /\ (~DictHas(item_to_index, i) /\ DictHas(item_to_index', i)) =>
                     DictAt(item_to_index', i) = Len(index_to_item)
       /\ MapsAgree(user_to_index', index_to_user')
       /\ MapsAgree(item_to_index', index_to_item')]_vars

\* C4: a step that is add_user of an id already in user_store changes
\* neither the index maps, nor the matrix, nor the stored ratings.
C4_DuplicateAddUserChangesNothing ==
    [][(call'.op = "add_user" /\ IsRegisteredUser(call'.args[1])) =>
           UNCHANGED <<user_to_index, index_to_user, item_to_index, index_to_item,
                       user_item_matrix, user_rating_store, item_rating_store>>]_vars

\* ------------------------------------------------------------------------
\* Claims C5 - C8: add_rating and the accessors
\* ------------------------------------------------------------------------

\* C5: add_rating with a user id never given to add_user, or an item id
\* never given to add_item, does not return normally.
C5_AddRatingUnknownIdFails ==
    (/\ call.op = "add_rating"
     /\ ~IsRegisteredUser(call.args[1]) \/ ~IsRegisteredItem(call.args[2]))
    => call.exc # "none"

\* add_rating has just been called with a registered user and an item that
\* was never added, and raised KeyError
C5_Witness ==
    /\ call.op = "add_rating"
    /\ IsRegisteredUser(call.args[1])
    /\ ~IsRegisteredItem(call.args[2])
    /\ call.exc = "KeyError"

\* C6: get_rating(u, i) returns None for a pair no add_rating was called
\* for, and when the latest add_rating(u, i, v) had v > 0 it returns v, which
\* is also the entry of user_rating_store.
C6_LastWriteWins ==
    call.op = "get_rating" =>
        LET u == call.args[1]
            i == call.args[2]
            h == last_rated[<<u, i>>]
        IN  /\ h = <<>> => (call.exc = "none" /\ call.ret = <<>>)
            /\ (h # <<>> /\ h[Len(h)] > 0) =>
                   /\ call.exc = "none"
                   /\ call.ret = <<h[Len(h)]>>
                   /\ UserRated(u, i)
                   /\ UserRating(u, i) = h[Len(h)]

\* get_rating has just returned the second of two different positive
\* ratings given to a registered pair
C6_Witness ==
    /\ call.op = "get_rating"
    /\ IsRegisteredUser(call.args[1])
    /\ IsRegisteredItem(call.args[2])
    /\ LET h == last_rated[<<call.args[1], call.args[2]>>]
       IN  /\ Len(h) = 2
           /\ h[1] > 0
           /\ h[2] > 0
           /\ h[1] # h[2]
           /\ call.ret = <<h[2]>>

\* C7: for a registered user u, get_user_vector(u) has one entry per item of
\* item_store and its entry at item_to_index[i] is u's stored rating of i, or
\* 0 when u has none; for a registered item i, get_item_vector(i) has one
\* entry per user of user_store and its entry at user_to_index[u] is u's
\* stored rating of i, or 0.  Stated for states whose ratings are positive.
C7_VectorsHoldLatestRatings ==
    PositiveRatingsOnly =>
    /\ (call.op = "get_user_vector" /\ IsRegisteredUser(call.args[1])) =>
           /\ call.exc = "none"
           /\ Len(call.ret[1]) = Len(item_store)
           /\ \A i \in ItemIds : IsRegisteredItem(i) =>
                  /\ DictAt(item_to_index, i) + 1 \in 1..Len(call.ret[1])
                  /\ call.ret[1][DictAt(item_to_index, i) + 1] =
                         IF UserRated(call.args[1], i)
                         THEN UserRating(call.args[1], i)
                         ELSE 0
    /\ (call.op = "get_item_vector" /\ IsRegisteredItem(call.args[1])) =>
           /\ call.exc = "none"
           /\ Len(call.ret[1]) = Len(user_store)
           /\ \A u \in UserIds : IsRegisteredUser(u) =>
                  /\ DictAt(user_to_index, u) + 1 \in 1..Len(call.ret[1])
                  /\ call.ret[1][DictAt(user_to_index, u) + 1] =
                         IF UserRated(u, call.args[1])
                         THEN UserRating(u, call.args[1])
                         ELSE 0

\* the last call was an accessor given an id that is not registered, or
\* get_item_popularity given an item without ratings
AccessorOnAbsent ==
    \/ call.op = "get_user" /\ ~IsRegisteredUser(call.args[1])
    \/ call.op = "get_item" /\ ~IsRegisteredItem(call.args[1])
    \/ /\ call.op = "get_rating"
       /\ ~IsRegisteredUser(call.args[1]) \/ ~IsRegisteredItem(call.args[2])
    \/ call.op = "get_user_vector" /\ ~IsRegisteredUser(call.args[1])
    \/ call.op = "get_item_vector" /\ ~IsRegisteredItem(call.args[1])
    \/ /\ call.op = "get_item_popularity"
       /\ ~IsRegisteredItem(call.args[1]) \/ ~DictHas(item_rating_store, call.args[1])

\* C8: an accessor called with an unknown id, or with an item that has no
\* ratings, never raises.
C8_AccessorsNeverRaise == AccessorOnAbsent => call.exc = "none"

\* ------------------------------------------------------------------------
\* Claims C9 - C10: top-k selection
\* ------------------------------------------------------------------------

Range(f) == {f[n] : n \in DOMAIN f}

\* result holds exactly the min(k, len) largest of the scores of offered,
\* largest first: it is non-increasing, its entries are the scores of
\* distinct offered candidates, and no candidate left out scores higher
\* than an entry of result
IsTopScores(result, offered, k) ==
    /\ Len(result) = Min(k, Len(offered))
    /\ \A n \in 1..(Len(result) - 1) : ~ScoreGT(result[n + 1], result[n])
    /\ \E f \in [1..Len(result) -> 1..Len(offered)] :
           /\ \A n, m \in 1..Len(result) : f[n] = f[m] => n = m
           /\ \A n \in 1..Len(result) : ScoreEQ(result[n], offered[f[n]])
           /\ \A c \in (1..Len(offered)) \ Range(f) :
                  \A n \in 1..Len(result) : ~ScoreGT(offered[c], result[n])

\* C9: get_top_k_popular_items(k), k >= 1, returns rated items whose
\* popularities are exactly the k largest popularities of the rated items
\* (all of them when fewer than k items are rated), in descending order.
C9_TopKPopularIsTheKLargest ==
    call.op = "get_top_k_popular_items" =>
        LET result == call.ret[1]
        IN  /\ call.exc = "none"
            /\ \A n \in 1..Len(result) : DictHas(item_rating_store, result[n])
            /\ IsTopScores(
                   [n \in 1..Len(result) |->
                       IntScore(Len(DictAt(item_rating_store, result[n])))],
                   TupleScores(PopularityCandidates),
                   call.args[1])

\* every item of item_store has at least one rating, so that the items the
\* query scans (the keys of item_rating_store) are all the items of the store
EveryItemRated ==
    \A n \in 1..Len(item_store) : DictHas(item_rating_store, item_store[n][1])

\* C10: get_top_k_similar_items(item, k) for a registered item returns
\* min(k, number of other items) ids of other items of the store, each once,
\* never item itself, in order of non-increasing similarity to item, and no
\* item left out is more similar to item than a returned one.  Stated for
\* the states in which every item of the store has a rating.
C10_TopKSimilarIsTheKMostSimilar ==
    (/\ call.op = "get_top_k_similar_items"
     /\ IsRegisteredItem(call.args[1])
     /\ EveryItemRated)
    => LET item == call.args[1]
           k == call.args[2]
           result == call.ret[1]
           others == {i \in RankItemIds : IsRegisteredItem(i) /\ i # item}
       IN  /\ call.exc = "none"
           /\ Len(result) = Min(k, Cardinality(others))
           /\ \A n \in 1..Len(result) : result[n] \in others
           /\ \A n, m \in 1..Len(result) : result[n] = result[m] => n = m
           /\ \A n \in 1..(Len(result) - 1) :
                  ~ScoreGT(get_item_similarity(item, result[n + 1]),
                           get_item_similarity(item, result[n]))
           /\ \A o \in others \ Range(result) :
                  \A n \in 1..Len(result) :
                      ~ScoreGT(get_item_similarity(item, o),
                               get_item_similarity(item, result[n]))

\* ------------------------------------------------------------------------
\* Claim C11: popularity
\* ------------------------------------------------------------------------

\* the users for whom add_rating(u, i, .) has been called
RatersOf(i) == {u \in AllUserIds : last_rated[<<u, i>>] # <<>>}

\* C11: get_item_popularity(i) of a registered item returns the number of
\* distinct users add_rating was called for with item i (0 when there is
\* none); rating a pair again does not add to it.
C11_PopularityCountsDistinctRaters ==
    (call.op = "get_item_popularity" /\ IsRegisteredItem(call.args[1])) =>
        /\ call.exc = "none"
        /\ call.ret = <<Cardinality(RatersOf(call.args[1]))>>

\* ------------------------------------------------------------------------
\* Claims C12 - C14: cosine similarity
\* ------------------------------------------------------------------------

\* the rating map a similarity call reads for an id: None is <<>>
RatingMapOf(op, id) ==
    LET got == IF op = "get_item_similarity"
               THEN DictGet(item_rating_store, id)
               ELSE DictGet(user_rating_store, id)
    IN  IF got = <<>> THEN <<>> ELSE got[1]

SimilarityOps == {"get_item_similarity", "get_user_similarity"}

C13_SelfSimilarityIsOne ==
    (/\ call.op = "get_item_similarity"
     /\ call.args[1] = call.args[2]
     /\ RatingMapOf(call.op, call.args[1]) # <<>>)
    => /\ call.exc = "none"
       /\ call.ret[1].num * call.ret[1].num = call.ret[1].den
       /\ call.ret[1].cmp1 = 0

\* one of the two ids of the last similarity call has no ratings, or one of
\* the two rating vectors has magnitude zero, or the two rating maps share
\* no key
DegenerateSimilarityCall ==
    /\ call.op \in SimilarityOps
    /\ LET map1 == RatingMapOf(call.op, call.args[1])
           map2 == RatingMapOf(call.op, call.args[2])
       IN  \/ map1 = <<>>
           \/ map2 = <<>>
           \/ SumSquares(map1) = 0
           \/ SumSquares(map2) = 0
           \/ \A n \in 1..Len(map1) : ~DictHas(map2, map1[n][1])

\* C14: a similarity call with an id that has no ratings (an unknown id
\* included), with a rating vector of magnitude zero, or with two rating
\* maps that share no key returns 0.0 and does not raise.
C14_DegenerateSimilarityIsZero ==
    DegenerateSimilarityCall =>
        /\ call.exc = "none"
        /\ call.ret[1].num = 0

\* a similarity call has returned 0.0 for two ids that both have ratings,
\* one of them with ratings that are all 0
C14_Witness ==
    /\ call.op \in SimilarityOps
    /\ RatingMapOf(call.op, call.args[1]) # <<>>
    /\ RatingMapOf(call.op, call.args[2]) # <<>>
    /\ SumSquares(RatingMapOf(call.op, call.args[1])) = 0
    /\ call.exc = "none"
    /\ call.ret[1].num = 0

\* ------------------------------------------------------------------------
\* The indices and caches derived from the stores
\* ------------------------------------------------------------------------

IndexBuildOps == {"build_category_index", "build_tag_index"}

\* C15: building the category index, or the tag index, a second time right
\* after the first leaves the index with the contents the first build gave
\* it: every item id stays listed once under its category and once under
\* each of its tags.
C15_RebuildingAnIndexChangesNothing ==
    [][(call.op \in IndexBuildOps /\ call'.op = call.op)
          => UNCHANGED <<category_index, tag_index>>]_vars

\* the users with a rating for both items
CommonRaters(a, b) == {u \in AllUserIds : UserRated(u, a) /\ UserRated(u, b)}

\* the keys of the matrix are pairs of two different items in id order
OrderedPairs == {<<a, b>> \in AllItemIds \X AllItemIds : IdRank(a) < IdRank(b)}

\* C16: right after build_cooccurence_matrix the matrix holds, for every
\* pair of different items, the number of users who have rated both (no
\* entry when there is none), whatever an earlier build had left in it; and
\* get_item_coocurrence(a, b) returns what get_item_coocurrence(b, a) returns.
C16_CooccurrenceCountsCommonRaters ==
    /\ call.op = "build_cooccurence_matrix" =>
           /\ \A n \in 1..Len(cooccurence_matrix) : cooccurence_matrix[n][1] \in OrderedPairs
           /\ \A pair \in OrderedPairs :
                  LET raters == Cardinality(CommonRaters(pair[1], pair[2]))
                  IN  IF raters = 0
                      THEN ~DictHas(cooccurence_matrix, pair)
                      ELSE DictGet(cooccurence_matrix, pair) = <<raters>>
    /\ call.op = "get_item_coocurrence" =>
           call.ret = get_item_coocurrence(call.args[2], call.args[1]).ret

\* a pair two users have rated is read with the later id first, after a
\* build that counted both users
C16_Witness ==
    /\ call.op = "get_item_coocurrence"
    /\ IdRank(call.args[1]) > IdRank(call.args[2])
    /\ call.ret = <<2>>
    /\ Cardinality(CommonRaters(call.args[1], call.args[2])) = 2

StoreWriteOps == {"add_user", "add_item", "add_rating"}

\* C17: add_user, add_item and add_rating leave the co-occurrence matrix,
\* the neighbourhood cache and the category and tag indices exactly as they
\* were; only a build call refreshes them.
C17_StoreWritesLeaveDerivedStructures ==
    [][call'.op \in StoreWriteOps => UNCHANGED derivedVars]_vars

\* a rating has just been stored while the category index and the
\* neighbourhood cache were built, and the cache no longer is what a build
\* would make of the stores
C17_Witness ==
    /\ call.op = "add_rating"
    /\ call.exc = "none"
    /\ category_index # <<>>
    /\ user_neighbourhoods # <<>>
    /\ \A k \in 1..MaxK : user_neighbourhoods \notin build_user_neighbourhoods(k)

\* the registered users other than user_id
OtherUsers(user_id) == {v \in AllUserIds : IsRegisteredUser(v) /\ v # user_id}

\* result lists k of the users most similar to user_id in the stores as
\* they are: different other users, each with its similarity to user_id,
\* in descending order, as many as there are up to k, and none left out
\* that is more similar than one listed
IsKMostSimilarUsers(result, user_id, k) ==
    /\ Len(result) = Min(k, Cardinality(OtherUsers(user_id)))
    /\ \A n \in 1..Len(result) :
           /\ result[n][1] \in OtherUsers(user_id)
           /\ result[n][2] = get_user_similarity(user_id, result[n][1])
    /\ \A n, m \in 1..Len(result) : n # m => result[n][1] # result[m][1]
    /\ \A n \in 1..(Len(result) - 1) : ~ScoreGT(result[n + 1][2], result[n][2])
    /\ \A v \in OtherUsers(user_id) \ {result[n][1] : n \in 1..Len(result)} :
           \A n \in 1..Len(result) :
               ~ScoreGT(get_user_similarity(user_id, v), result[n][2])

\* what C18 says of the call that has just returned
NeighbourhoodAnswer ==
    LET user_id == call.args[1]
        k == call.args[2]
        result == call.ret[1]
    IN  /\ call.exc = "none"
        /\ IF DictHas(user_neighbourhoods, user_id)
           THEN LET cached == DictAt(user_neighbourhoods, user_id)
                IN  /\ Len(result) = Min(k, Len(cached))
                    /\ \A n \in 1..Len(result) : result[n] = cached[n]
           ELSE IsKMostSimilarUsers(result, user_id, k)

\* C18: get_user_neighborhood(user, k) returns, for a user in the cache,
\* the first min(k, cached length) cached entries in cached order, whatever
\* the stores hold by now; for a user not in the cache, the k most similar
\* other users of the current stores; and it leaves the cache as it was.
C18_NeighbourhoodFromCacheElseFromStore ==
    [][call'.op = "get_user_neighborhood"
          => (UNCHANGED user_neighbourhoods /\ NeighbourhoodAnswer')]_vars

\* a neighbourhood has been served from the cache although ratings stored
\* since have changed the similarity of the neighbour it lists first
C18_Witness ==
    /\ call.op = "get_user_neighborhood"
    /\ DictHas(user_neighbourhoods, call.args[1])
    /\ call.ret[1] # <<>>
    /\ call.ret[1][1][2] # get_user_similarity(call.args[1], call.ret[1][1][1])
    /\ call.ret[1] \notin get_user_neighborhood_uncached(call.args[1], call.args[2])

\* ------------------------------------------------------------------------
\* Predictions and recommendations of the user-neighbourhood scorer
\* ------------------------------------------------------------------------

\* whichever neighbourhood predict_rating(user_id, item_id, k) works from,
\* some neighbour has rated the item and the similarities of those who
\* have sum to zero
ZeroWeightPrediction(user_id, item_id, k) ==
    \A neighbourhood \in get_user_neighborhood(user_id, k) :
        /\ NeighbourRatings(neighbourhood, item_id) # <<>>
        /\ ZeroTotalSimilarity(NeighbourRatings(neighbourhood, item_id))

\* C19: a weighted average whose similarities sum to zero is guarded:
\* predict_rating then returns None, and neither predict_rating nor the
\* user-neighbourhood recommend ends in a division by zero.
C19_ZeroTotalSimilarityIsGuarded ==
    /\ call.op \in {"predict_rating", "user_cf_recommend"} =>
           call.exc # "ZeroDivisionError"
    /\ (/\ call.op = "predict_rating"
        /\ ZeroWeightPrediction(call.args[1], call.args[2], call.args[3])) =>
           (call.exc = "none" /\ call.ret = <<>>)

\* the registered user has no rating stored
HasNoRatings(u) ==
    IsRegisteredUser(u) /\ \A i \in AllItemIds : ~UserRated(u, i)

\* C20: for a registered user with no ratings, whatever the other users
\* have rated, the user-neighbourhood recommend returns the empty list and
\* predict_rating returns None; neither raises.
C20_NoRatingsGiveEmptyResults ==
    /\ (call.op = "user_cf_recommend" /\ HasNoRatings(call.args[1])) =>
           (call.exc = "none" /\ call.ret = << <<>> >>)
    /\ (call.op = "predict_rating" /\ HasNoRatings(call.args[1])) =>
           (call.exc = "none" /\ call.ret = <<>>)

\* ------------------------------------------------------------------------
\* The content scorer
\* ------------------------------------------------------------------------

\* the items the user has rated strictly above 4.0
Qualifying(u) == {i \in AllItemIds : UserRated(u, i) /\ UserRating(u, i) > 4}

\* the tags the stored item carries (none when tags is None)
TagsOf(i) ==
    LET item == DictAt(item_store, i)
    IN  IF item.tags = <<>> THEN {} ELSE {item.tags[1][t] : t \in 1..Len(item.tags[1])}

\* the stored item has the feature as its category or among its tags
Carries(i, feature) ==
    IsRegisteredItem(i) /\ (DictAt(item_store, i).category = feature \/ feature \in TagsOf(i))

\* the qualifying items of the user that carry the feature
Carrying(u, feature) == {i \in Qualifying(u) : Carries(i, feature)}

Features == {"c1", "c2", "t1", "t2"}

\* C21: the map extract_user_preferences(user) returns has one entry for
\* every category or tag carried by an item the user rated strictly above
\* 4.0 (an item rated exactly 4.0 counts for nothing), and the weight of the
\* entry is the number of those items carrying it over the number of those
\* items.
C21_PreferencesCountRatingsAboveFour ==
    call.op = "extract_user_preferences" =>
        /\ Qualifying(call.args[1]) # {} => (call.exc = "none" /\ call.ret # <<>>)
        /\ (call.exc = "none" /\ call.ret # <<>>) =>
               LET u == call.args[1]
                   preferences == call.ret[1]
               IN  /\ \A f \in Features :
                          DictHas(preferences, f) <=> Carrying(u, f) # {}
                   /\ \A n \in 1..Len(preferences) :
                          /\ preferences[n][1] \in Features
                          /\ preferences[n][2].count
                                 = Cardinality(Carrying(u, preferences[n][1]))
                          /\ preferences[n][2].total = Cardinality(Qualifying(u))
                   /\ \A n, m \in 1..Len(preferences) :
                          preferences[n][1] = preferences[m][1] => n = m

\* C22: for every catalogue the store accepts, tags absent included, and
\* every set of ratings, extract_user_preferences of a user with ratings
\* returns a map and every weight in it lies between 0 and 1.
C22_PreferenceWeightsWithinUnitInterval ==
    (call.op = "extract_user_preferences" /\ DictHas(user_rating_store, call.args[1])) =>
        /\ call.exc = "none"
        /\ call.ret # <<>>
        /\ \A n \in 1..Len(call.ret[1]) :
               /\ 0 <= call.ret[1][n][2].count
               /\ call.ret[1][n][2].count <= call.ret[1][n][2].total

\* the registered items the user has no rating for
Unrated(u) == {i \in AllItemIds : IsRegisteredItem(i) /\ ~UserRated(u, i)}

\* 10 x weight(category) + 5 x the sum of weight(tag) over the tags of the
\* item that are preferences, as a number of points over the number of
\* qualifying items; the weights are those of the preference map
\* extract_user_preferences returns for the user
ClaimedPoints(u, i) ==
    LET preferences == extract_user_preferences(u).ret[1]
        Points(f) == IF \E n \in 1..Len(preferences) : preferences[n][1] = f
                     THEN LET n == CHOOSE m \in 1..Len(preferences) : preferences[m][1] = f
                          IN  preferences[n][2].count
                     ELSE 0
        tags == TagsOf(i)
    IN  10 * Points(DictAt(item_store, i).category)
        + 5 * ((IF "t1" \in tags THEN Points("t1") ELSE 0)
               + (IF "t2" \in tags THEN Points("t2") ELSE 0)
               + (IF "c1" \in tags THEN Points("c1") ELSE 0)
               + (IF "c2" \in tags THEN Points("c2") ELSE 0))

\* the user has at least one preference
HasPreference(u) ==
    LET preferences == extract_user_preferences(u)
    IN  preferences.exc = "none" /\ preferences.ret # <<>> /\ preferences.ret[1] # <<>>

ItemCFCandidates(user_id) ==
    {item_rating_store[n][1] : n \in 1..Len(item_rating_store)}
        \ {i \in AllItemIds : UserRated(user_id, i)}

\* the sum over the items user_id rated of similarity(i, c) * rating, each
\* pair (i, c) once
ClaimedItemScore(user_id, c) ==
    LET user_rating_map == DictAt(user_rating_store, user_id)
    IN  [terms |-> [n \in 1..Len(user_rating_map) |->
                       <<get_item_similarity(user_rating_map[n][1], c),
                         user_rating_map[n][2],
                         Magnitudes(user_rating_map[n][1], c)>>]]

\* C24: for a user with ratings the item-based recommend(user, n) returns
\* the first n (all, when there are fewer) of the unrated candidate items,
\* each once, in order of non-increasing accumulated score, the score of a
\* candidate c being the sum of similarity(i, c) * rating(user, i) over the
\* rated items i, each pair (i, c) contributing once.
C24_ItemRecommendRanksByAccumulatedScore ==
    (/\ call.op = "item_cf_recommend"
     /\ \E i \in AllItemIds : UserRated(call.args[1], i))
    => LET user_id == call.args[1]
           n == call.args[2]
           result == call.ret[1]
       IN  /\ call.exc = "none"
           /\ Len(result) = Min(n, Cardinality(ItemCFCandidates(user_id)))
           /\ \A a \in 1..Len(result) : result[a] \in ItemCFCandidates(user_id)
           /\ \A a, b \in 1..Len(result) : a # b => result[a] # result[b]
           /\ \A a \in 1..(Len(result) - 1) :
                  ~TermsLT(ClaimedItemScore(user_id, result[a]),
                           ClaimedItemScore(user_id, result[a + 1]))

\* C30: find_frequent_pairs(min_count) returns exactly the pairs of the
\* co-occurrence matrix whose count is at least min_count, each once with
\* its count, in order of non-increasing count.
C30_FrequentPairsAreThoseWithAtLeastMinCount ==
    call.op = "find_frequent_pairs"
    => LET min_count == call.args[1]
           result == call.ret[1]
           frequent == {n \in 1..Len(cooccurence_matrix) : cooccurence_matrix[n][2] >= min_count}
       IN  /\ {result[n] : n \in 1..Len(result)}
                  = {<<cooccurence_matrix[n][1][1], cooccurence_matrix[n][1][2],
                       cooccurence_matrix[n][2]>> : n \in frequent}
           /\ Len(result) = Cardinality(frequent)
           /\ \A n \in 1..(Len(result) - 1) : result[n][3] >= result[n + 1][3]

\* ------------------------------------------------------------------------
\* The hybrid recommender
\* ------------------------------------------------------------------------

\* 1200 times weight * (len(list) - position) / len(list) for a list that
\* names the item, 0 for one that does not
ListPoints(weight, list, item) ==
    IF \E n \in 1..Len(list) : list[n] = item
    THEN LET position == (CHOOSE n \in 1..Len(list) : list[n] = item) - 1
         IN  (weight * (Len(list) - position) * 12) \div Len(list)
    ELSE 0

\* the combined score of an item for three lists, times 1200
Combined(weights, content, item_cf, user_cf, item) ==
    ListPoints(weights.content, content, item)
        + ListPoints(weights.item_cf, item_cf, item)
        + ListPoints(weights.user_cf, user_cf, item)

\* result is a fusion of the three lists: at most n different ids of their
\* union, in order of non-increasing combined score, no id left out that
\* scores above one that is returned
IsFusion(result, weights, content, item_cf, user_cf, n) ==
    LET union == Range(content) \cup Range(item_cf) \cup Range(user_cf)
        score(item) == Combined(weights, content, item_cf, user_cf, item)
    IN  /\ Len(result) <= n
        /\ \A a, b \in 1..Len(result) : a # b => result[a] # result[b]
        /\ Range(result) \subseteq union
        /\ \A a \in 1..(Len(result) - 1) : score(result[a]) >= score(result[a + 1])
        /\ \A omitted \in union \ Range(result) :
               \A a \in 1..Len(result) : score(omitted) <= score(result[a])

\* the lists the user-based scorer returns for 2 * n
UserCFLists(user_id, n) ==
    {c.ret[1] : c \in {d \in user_cf_recommend(user_id, 2 * n, DefaultK) : d.exc = "none"}}

\* C25: a call get_hybrid_recommendations(user, n, weights) that returns
\* gives at most n different ids of the union of the three scorers' lists
\* for 2n, in order of non-increasing combined score (the sum over the
\* lists naming the item of weight * (len - position) / len), and no id of
\* the union left out scores strictly above a returned one.
C25_HybridFusesByPositionScore ==
    (call.op = "get_hybrid_recommendations" /\ call.exc = "none")
    => LET user_id == call.args[1]
           n == call.args[2]
           weights == IF call.args[3] = <<>> THEN DefaultWeights ELSE call.args[3][1]
       IN  \E user_cf \in UserCFLists(user_id, n) :
               IsFusion(call.ret[1], weights,
                        content_recommend(user_id, 2 * n).ret[1],
                        item_cf_recommend(user_id, 2 * n).ret[1],
                        user_cf, n)

\* a hybrid call for one id returned it out of a union of two, all three
\* lists naming something and the user-based list deciding the order
C25_Witness ==
    /\ call.op = "get_hybrid_recommendations"
    /\ call.exc = "none"
    /\ call.args[2] = 1
    /\ Len(call.ret[1]) = 1
    /\ LET user_id == call.args[1]
           weights == IF call.args[3] = <<>> THEN DefaultWeights ELSE call.args[3][1]
           content == content_recommend(user_id, 2).ret[1]
           item_cf == item_cf_recommend(user_id, 2).ret[1]
       IN  /\ content # <<>>
           /\ item_cf # <<>>
           /\ \E user_cf \in UserCFLists(user_id, 1) :
                  /\ user_cf # <<>>
                  /\ \E omitted \in Range(content) \cup Range(item_cf) \cup Range(user_cf) :
                         /\ omitted # call.ret[1][1]
                         /\ Combined(weights, content, item_cf, user_cf, omitted)
                                < Combined(weights, content, item_cf, user_cf, call.ret[1][1])
                         /\ Combined(weights, content, item_cf, <<>>, omitted)
                                >= Combined(weights, content, item_cf, <<>>, call.ret[1][1])

RecommendOps ==
    {"content_recommend", "item_cf_recommend", "user_cf_recommend",
     "get_hybrid_recommendations"}

\* C26: while every stored rating is positive, whatever the state of the
\* neighbourhood cache, no list returned by the content-based, item-based,
\* user-based or hybrid recommender names an item its user has rated.
C26_NoRatedItemIsRecommended ==
    (/\ call.op \in RecommendOps
     /\ call.exc = "none"
     /\ PositiveRatingsOnly)
    => \A n \in 1..Len(call.ret[1]) : ~UserRated(call.args[1], call.ret[1][n])

\* the hybrid recommender returned an item to a user who has rated another
\* and whose cached neighbourhood is no longer the current one
C26_Witness ==
    /\ call.op = "get_hybrid_recommendations"
    /\ call.exc = "none"
    /\ call.ret[1] # <<>>
    /\ PositiveRatingsOnly
    /\ \E i \in AllItemIds : UserRated(call.args[1], i)
    /\ DictHas(user_neighbourhoods, call.args[1])
    /\ DictAt(user_neighbourhoods, call.args[1])
           \notin get_user_neighborhood_uncached(call.args[1], DefaultK)

\* ------------------------------------------------------------------------
\* A failing add_rating
\* ------------------------------------------------------------------------

\* C27: a call of add_rating that raises leaves user_rating_store,
\* item_rating_store, the matrix and the four index maps as they were
\* before the call.
C27_FailingAddRatingChangesNothing ==
    [][(call'.op = "add_rating" /\ call'.exc # "none")
           => UNCHANGED <<user_rating_store, item_rating_store, user_item_matrix,
                          user_to_index, index_to_user, item_to_index, index_to_item>>]_vars

\* ------------------------------------------------------------------------
\* The heap
\* ------------------------------------------------------------------------

\* no element is smaller than its parent
IsMinHeap(h) ==
    \A index \in 1..(Len(h) - 1) :
        ~TupleGT(h[_get_parent_index(index) + 1], h[index + 1])

\* item is an element of h that no element of h is below
IsMinimumOf(item, h) ==
    /\ \E n \in 1..Len(h) : h[n] = item
    /\ \A n \in 1..Len(h) : ~TupleGT(item, h[n])

\* C28: after any pushes and pops the heap is in min-heap order, peek
\* returns the minimum of the elements held (as pop will), and popping
\* until the heap is empty gives the elements in ascending order.
C28_HeapOrderIsKept ==
    /\ IsMinHeap(min_heap)
    /\ min_heap # <<>> => IsMinimumOf(peek(min_heap), min_heap)
    /\ min_heap # <<>> => IsMinimumOf(pop(min_heap).value, min_heap)
    /\ \A n \in 1..(Len(min_heap) - 1) : ~TupleGT(Drain(min_heap)[n], Drain(min_heap)[n + 1])

\* the number of times item is in h
CountIn(h, item) == Cardinality({n \in 1..Len(h) : h[n] = item})

\* C29: the heap holds every element as many times as it was pushed less
\* the times pop returned it (its swap exchanges two elements and loses
\* none).
C29_HeapHoldsPushedMinusPopped ==
    \A item \in HeapItems : CountIn(min_heap, item) = pushed[item] - popped[item]

====
